---------------------------- MODULE Spec2Model ----------------------------
(***************************************************************************)
(* Model of the xv6 virtual-memory subsystem with file-backed mmap:        *)
(* kernel/vm.c (walk, uvmunmap, mmap, mmapapage, munmap, and the address-  *)
(* space operations uvmalloc, uvmdealloc, uvmcopy, uvmfree, freewalk,      *)
(* copyout, copyin) of rzbdz/xv6-labs-2020.  One process owns one page     *)
(* table, one size watermark and one table of MAXVMA regions; uvmcopy      *)
(* fills the page table of a child; physical memory is a pool of page      *)
(* frames handed out by kalloc.                                            *)
(*                                                                         *)
(* Addresses and lengths are byte quantities, page-table entries are the   *)
(* 64-bit integers of the hardware format (flag bits 0..9, frame number    *)
(* from bit 10), and a page-table page is the partial function from its    *)
(* non-zero indices to their entries.                                      *)
(***************************************************************************)
EXTENDS Integers, Sequences, FiniteSets, TLC

\* ------------------------------------------------------------- bounds
\* Number of physical page frames of the model (frame k lives at k*PGSIZE).
NFrames == 6
\* The model stops mapping once the size watermark would pass this many pages.
MaxPages == 4

\* ------------------------------------------------- program constants
PGSIZE == 4096
NPTE == 512
MAXVMA == 16
BSIZE == 1024
MAXOPBLOCKS == 10
PTE_V == 1
PTE_R == 2
PTE_W == 4
PTE_X == 8
PTE_U == 16
PTE_M == 256
PROT_READ == 1
PROT_WRITE == 2
MAP_SHARED == 1
MAP_PRIVATE == 2
\* va >= MAXVA, with MAXVA = 1 << (9 + 9 + 9 + 12 - 1) counted in pages.
AboveMAXVA(va) == va \div PGSIZE >= 2^26

PGROUNDUP(sz) == ((sz + PGSIZE - 1) \div PGSIZE) * PGSIZE
PGROUNDDOWN(a) == (a \div PGSIZE) * PGSIZE

\* x & bit, for a single-bit mask: the mask when the bit is set in x, else 0.
BitAnd(x, bit) == IF (x \div bit) % 2 = 1 THEN bit ELSE 0
\* x | bit, for a single-bit mask.
BitOr(x, bit) == IF (x \div bit) % 2 = 1 THEN x ELSE x + bit

PA2PTE(pa) == (pa \div PGSIZE) * 1024
PTE2PA(pte) == (pte \div 1024) * PGSIZE
PTE_FLAGS(pte) == pte % 1024
\* PROT_READ, PROT_WRITE, PROT_EXEC shifted onto PTE_R, PTE_W, PTE_X.
PROT2FLAG(prot) == prot * 2
PX(level, va) == (va \div (PGSIZE * NPTE^level)) % NPTE

Frames == 1..NFrames
Pa(frame) == frame * PGSIZE

\* -------------------------------------------------------------- state
VARIABLES
  pagetable,  \* p->pagetable: physical address of the root page-table page
  sz,         \* p->sz: the size watermark
  vmatable,   \* p->vmatable[1..MAXVMA]
  ftable,     \* the open files: reference count, readable, writable
  ptmem,      \* contents of every frame used as a page-table page
  freelist,   \* kmem.freelist, most recently freed frame first
  pc,         \* where the process is: "idle" in user mode, the place inside
              \* mmapapage or munmap, "ret" when a call is about to return
  m,          \* munmap's locals while a call is in progress
  wb,         \* the writei calls of the munmap in progress: the bytes they
              \* wrote, the arguments of the last one (n = 0: none yet)
  rd,         \* mmapapage's page address and the arguments of its readi
  ilocked,    \* the inode's sleep-lock is held
  ret,        \* the value the call returns (at "ret")
  panicked,   \* panic() was called: the kernel has halted
  child,      \* the address space uvmcopy copies into: root (0: none), size
  vmcall,     \* the address-space call that is returning: its name,
              \* arguments and what it allocated, freed and copied
  calls,      \* how many address-space calls were made so far
  buf,        \* bcache.buf[1..NBUF]: dev, blockno, refcnt, holder of b->lock
  bucket,     \* bcache.bucket_head[0..NBUCKET-1]: the list from head.next on
  bucket_lock,\* bcache.bucket_lock[0..NBUCKET-1]: the holder, 0 when free
  procs       \* the kernel threads that use the buffer cache: where each
              \* is inside bget or brelse, its locals, the buffers it holds

\* ------------------------------------------------------ buffer cache
\* The number of hash buckets of the buffer cache.
NBUCKET == 13
\* The number of buffers (param.h's NBUF, scaled down).
NBUF == 2
\* The number of kernel threads that call bget and brelse.
NProc == 2

Bufs == 1..NBUF
Buckets == 0..(NBUCKET - 1)
Procs == 1..NProc

\* A thread outside bget and brelse that holds no buffer; the locals of a call
\* (dev, blockno, buid, stealid, b) are 0 while they are not in use.
NoProc == [pc |-> "idle", dev |-> 0, blockno |-> 0, buid |-> 0, stealid |-> 0,
           b |-> 0, held |-> {}]

\* binit(): every bucket list empty, then every buffer pushed at the head of
\* bucket 0; the buffers are zeroed static storage, their locks free.
binit ==
  /\ buf = [b \in Bufs |-> [dev |-> 0, blockno |-> 0, refcnt |-> 0, lock |-> 0]]
  /\ bucket = [i \in Buckets |->
                 IF i = 0 THEN [k \in 1..NBUF |-> NBUF + 1 - k] ELSE <<>>]
  /\ bucket_lock = [i \in Buckets |-> 0]
  /\ procs = [p \in Procs |-> NoProc]

bvars == <<buf, bucket, bucket_lock, procs>>

vars == <<pagetable, sz, vmatable, ftable, ptmem, freelist, pc, m, wb, rd,
          ilocked, ret, panicked, child, vmcall, calls, bvars>>

\* The variables of the address-space model.
vmvars == <<pagetable, sz, vmatable, ftable, ptmem, freelist, pc, m, wb, rd,
          ilocked, ret, panicked, child, vmcall, calls>>

\* ------------------------------------------------------ page tables
\* A page-table page: index -> entry, for its non-zero entries only.
EmptyTable == <<>>
Entry(t, i) == IF i \in DOMAIN t THEN t[i] ELSE 0
SetEntry(t, i, e) ==
  IF e = 0 THEN [j \in DOMAIN t \ {i} |-> t[j]]
  ELSE [j \in DOMAIN t \cup {i} |-> IF j = i THEN e ELSE t[j]]

\* The entry a pte pointer <<table frame, index>> points at.
Deref(pm, pte) == Entry(pm[pte[1]], pte[2])
Store(pm, pte, e) == [pm EXCEPT ![pte[1]] = SetEntry(@, pte[2], e)]

\* kalloc: the head of the free list, 0 when memory is exhausted.
kalloc(fl) == IF fl = <<>> THEN 0 ELSE Pa(Head(fl))
AfterKalloc(fl) == IF fl = <<>> THEN fl ELSE Tail(fl)
kfree(fl, pa) == <<pa \div PGSIZE>> \o fl

\* One level of walk(): from table `tab`, follow or (alloc) create the entry
\* for va at `level`.  Result: the next table (0: none), memory, free list.
WalkLevel(pm, fl, tab, va, level, alloc) ==
  LET e == Entry(pm[tab \div PGSIZE], PX(level, va)) IN
  IF BitAnd(e, PTE_V) # 0
  THEN [tab |-> PTE2PA(e), pm |-> pm, fl |-> fl]
  ELSE IF ~alloc \/ kalloc(fl) = 0
       THEN [tab |-> 0, pm |-> pm, fl |-> fl]
       ELSE LET new == kalloc(fl) IN
            [tab |-> new,
             pm |-> [pm EXCEPT ![new \div PGSIZE] = EmptyTable,
                               ![tab \div PGSIZE] =
                                  SetEntry(@, PX(level, va), PA2PTE(new) + PTE_V)],
             fl |-> AfterKalloc(fl)]

\* walk(pagetable, va, alloc): pte is <<frame of the level-0 table, index>>,
\* or <<>> when walk returns 0.  va >= MAXVA panics.
walk(pm, fl, root, va, alloc) ==
  IF AboveMAXVA(va) THEN [pte |-> <<>>, pm |-> pm, fl |-> fl, panic |-> TRUE]
  ELSE
  LET l2 == WalkLevel(pm, fl, root, va, 2, alloc) IN
  IF l2.tab = 0 THEN [pte |-> <<>>, pm |-> l2.pm, fl |-> l2.fl, panic |-> FALSE]
  ELSE
  LET l1 == WalkLevel(l2.pm, l2.fl, l2.tab, va, 1, alloc) IN
  IF l1.tab = 0 THEN [pte |-> <<>>, pm |-> l1.pm, fl |-> l1.fl, panic |-> FALSE]
  ELSE [pte |-> <<l1.tab \div PGSIZE, PX(0, va)>>, pm |-> l1.pm, fl |-> l1.fl,
        panic |-> FALSE]

\* The leaf entry translating va (0 when there is none): walk without alloc.
Leaf(pm, root, va) ==
  LET w == walk(pm, <<>>, root, va, FALSE) IN
  IF w.pte = <<>> THEN 0 ELSE Deref(pm, w.pte)


\* uvmunmap's loop over the pages a, a+PGSIZE, ... below `last`.
RECURSIVE UvmunmapLoop(_, _, _, _, _, _)
UvmunmapLoop(pm, fl, root, a, last, do_free) ==
  IF a >= last THEN [pm |-> pm, fl |-> fl, panic |-> FALSE]
  ELSE
  LET w == walk(pm, fl, root, a, FALSE) IN
  IF w.panic \/ w.pte = <<>>
  THEN [pm |-> pm, fl |-> fl, panic |-> TRUE]          \* "uvmunmap: walk"
  ELSE
  LET e == Deref(pm, w.pte) IN
  IF BitAnd(e, PTE_V) = 0
  THEN UvmunmapLoop(pm, fl, root, a + PGSIZE, last, do_free)
  ELSE IF PTE_FLAGS(e) = PTE_V
  THEN [pm |-> pm, fl |-> fl, panic |-> TRUE]          \* "uvmunmap: not a leaf"
  ELSE UvmunmapLoop(Store(pm, w.pte, 0),
                    IF do_free /\ PTE2PA(e) # 0 THEN kfree(fl, PTE2PA(e)) ELSE fl,
                    root, a + PGSIZE, last, do_free)

\* uvmunmap(pagetable, va, npages, do_free): memory and free list afterwards.
uvmunmap(pm, fl, root, va, npages, do_free) ==
  IF va % PGSIZE # 0
  THEN [pm |-> pm, fl |-> fl, panic |-> TRUE]          \* "uvmunmap: not aligned"
  ELSE UvmunmapLoop(pm, fl, root, va, va + npages * PGSIZE, do_free)

\* ------------------------------------------------------------- files
Fds == {0, 1}
filedup(ft, f) == [ft EXCEPT ![f].ref = @ + 1]
fileclose(ft, f) == [ft EXCEPT ![f].ref = @ - 1]

\* The locals of munmap, the write-back and the read when none is in progress.
NoCall == [low |-> 0, high |-> 0, n |-> 0, v |-> 0, off |-> 0, i |-> 0,
           n1 |-> 0, r |-> 0, ret |-> 0]
NoWb == [bytes |-> 0, off |-> 0, src |-> 0, n |-> 0, calls |-> <<>>]
NoRead == [addr |-> 0, off |-> 0, dst |-> 0, n |-> 0]
\* No address-space call: op names the call, t the root it works on, a and b
\* its arguments, got the data frames it took from kalloc, segs its memmove
\* calls, followed whether freewalk took a leaf entry for a table pointer.
NoVmCall == [op |-> "none", t |-> "none", a |-> 0, b |-> 0, got |-> <<>>,
             segs |-> <<>>, followed |-> FALSE]
\* No child address space: its root and the size it was copied with.
NoChild == [root |-> 0, sz |-> 0]

\* -------------------------------------------------------------- mmap
FreeVma == [addr |-> 0, length |-> 0, prot |-> 0, flags |-> 0, fileoff |-> 0,
            f |-> 0]

\* The reservation loop of mmap: for(i = 0; i < length; i += PGSIZE).
RECURSIVE MmapReserve(_, _, _, _, _, _, _)
MmapReserve(pm, fl, root, first_free, i, length, size) ==
  IF i >= length THEN [ok |-> TRUE, pm |-> pm, fl |-> fl, sz |-> size,
                       panic |-> FALSE]
  ELSE
  LET w == walk(pm, fl, root, first_free + i, TRUE) IN
  IF w.panic THEN [ok |-> FALSE, pm |-> pm, fl |-> fl, sz |-> size,
                   panic |-> TRUE]
  ELSE IF w.pte = <<>>                                              \* "walk"
  THEN [ok |-> FALSE, pm |-> w.pm, fl |-> w.fl, sz |-> size, panic |-> FALSE]
  ELSE IF BitAnd(Deref(w.pm, w.pte), PTE_V) # 0                     \* "remap"
  THEN [ok |-> FALSE, pm |-> w.pm, fl |-> w.fl, sz |-> size, panic |-> FALSE]
  ELSE MmapReserve(Store(w.pm, w.pte, PTE_V + PTE_U + PTE_M), w.fl, root,
                   first_free, i + PGSIZE, length, size + PGSIZE)

\* A search that looks at the last slot only.
FirstFreeSlotLast(vt) == IF vt[MAXVMA].addr = 0 THEN MAXVMA ELSE 0

\* The first free slot of the region table, 0 when all are active.
FirstFreeSlot(vt) ==
  IF \E i \in 1..MAXVMA : vt[i].addr = 0
  THEN CHOOSE i \in 1..MAXVMA :
         vt[i].addr = 0 /\ \A j \in 1..(i - 1) : vt[j].addr # 0
  ELSE 0

\* An mmap that drops its offset argument: v->fileoff = 0.
MmapVmaNoOffset(first_free, length, prot, flags, fd, offset) ==
  [addr |-> first_free, length |-> length, prot |-> prot, flags |-> flags,
   fileoff |-> 0, f |-> fd]

\* The region mmap writes into the slot it claims.
MmapVma(first_free, length, prot, flags, fd, offset) ==
  [addr |-> first_free, length |-> length, prot |-> prot, flags |-> flags,
   fileoff |-> offset, f |-> fd]

\* The requests the model draws mmap's arguments from: a shared writable
\* two-page mapping, a shared read-only three-page mapping, a private
\* writable mapping whose length is no multiple of the page size and whose
\* file offset is not 0, and a private read-only one-page mapping of the
\* read-only file.
MmapArgs ==
  { [length |-> 2 * PGSIZE, prot |-> PROT_READ + PROT_WRITE,
     flags |-> MAP_SHARED, fd |-> 0, offset |-> 0],
    [length |-> 3 * PGSIZE, prot |-> PROT_READ,
     flags |-> MAP_SHARED, fd |-> 0, offset |-> 0],
    [length |-> PGSIZE + 1, prot |-> PROT_READ + PROT_WRITE,
     flags |-> MAP_PRIVATE, fd |-> 0, offset |-> PGSIZE],
    [length |-> PGSIZE, prot |-> PROT_READ,
     flags |-> MAP_PRIVATE, fd |-> 1, offset |-> 0] }

\* mmap(addr, length, prot, flags, fd, offset)
MmapStep(length, prot, flags, fd, offset) ==
  LET first_free == PGROUNDUP(sz)
      r == MmapReserve(ptmem, freelist, pagetable, first_free, 0, length, sz)
      f == ftable[fd]
      slot == FirstFreeSlot(vmatable)
  IN
  /\ pc = "idle" /\ ~panicked
  /\ ptmem' = r.pm
  /\ freelist' = r.fl
  /\ sz' = r.sz
  /\ panicked' = r.panic
  /\ IF ~r.ok
       \/ (~f.readable /\ BitAnd(prot, PROT_READ) # 0)
       \/ (BitAnd(flags, MAP_SHARED) # 0 /\ ~f.writable
           /\ BitAnd(prot, PROT_WRITE) # 0)
       \/ slot = 0
     THEN /\ ret' = -1
          /\ UNCHANGED <<vmatable, ftable>>
     ELSE /\ ftable' = filedup(ftable, fd)
          /\ vmatable' = [vmatable EXCEPT ![slot] =
                            MmapVma(first_free, length, prot, flags, fd, offset)]
          /\ ret' = first_free
  /\ pc' = "ret"
  /\ UNCHANGED <<child, vmcall, calls, bvars>>
  /\ UNCHANGED <<pagetable, m, wb, rd, ilocked>>

\* mmap, called while the mapping ends within the model's MaxPages pages.
Mmap(length, prot, flags, fd, offset) ==
  /\ PGROUNDUP(sz) + PGROUNDUP(length) <= MaxPages * PGSIZE
  /\ MmapStep(length, prot, flags, fd, offset)

MmapCall ==
  \E a \in MmapArgs : Mmap(a.length, a.prot, a.flags, a.fd, a.offset)

\* The call returns to user mode.
Return ==
  /\ pc = "ret" /\ ~panicked
  /\ pc' = "idle"
  /\ ret' = 0
  /\ m' = NoCall
  /\ wb' = NoWb
  /\ rd' = NoRead
  /\ vmcall' = NoVmCall
  /\ UNCHANGED <<pagetable, sz, vmatable, ftable, ptmem, freelist, ilocked,
                 panicked, child, calls, bvars>>

\* --------------------------------------------------------- mmapapage
\* A search that takes the first active region, wherever addr lies.
FindVmaAny(vt, addr) ==
  IF \E i \in 1..MAXVMA : vt[i].addr # 0
  THEN CHOOSE i \in 1..MAXVMA :
         vt[i].addr # 0 /\ \A j \in 1..(i - 1) : vt[j].addr = 0
  ELSE 0

\* The first active region with vma_low <= addr < vma_low + length, else 0.
FindVma(vt, addr) ==
  IF \E i \in 1..MAXVMA : vt[i].addr # 0 /\ vt[i].addr <= addr
                          /\ vt[i].addr + vt[i].length > addr
  THEN CHOOSE i \in 1..MAXVMA :
         /\ vt[i].addr # 0 /\ vt[i].addr <= addr /\ vt[i].addr + vt[i].length > addr
         /\ \A j \in 1..(i - 1) :
              ~(vt[j].addr # 0 /\ vt[j].addr <= addr
                /\ vt[j].addr + vt[j].length > addr)
  ELSE 0

\* The file offset mmapapage passes to readi for the page at addr of region v.
FaultFileOff(v, addr) == addr - v.addr

\* mmapapage(addr), the page-fault handler of mapped regions, up to its call
\* of readi.
MmapapageEnter(faultaddr) ==
  LET addr == PGROUNDDOWN(faultaddr)
      w == walk(ptmem, freelist, pagetable, addr, FALSE)
      vi == FindVma(vmatable, addr)
      dst == kalloc(freelist)
  IN
  /\ pc = "idle" /\ ~panicked
  /\ panicked' = w.panic
  /\ IF w.panic \/ w.pte = <<>> \/ BitAnd(Deref(ptmem, w.pte), PTE_M) = 0
        \/ vi = 0
     THEN /\ ret' = -1                          \* bad: no region locked
          /\ pc' = "ret"
          /\ UNCHANGED <<ptmem, freelist, rd, ilocked>>
     ELSE IF dst = 0
     THEN /\ ret' = -1                          \* "mmap: kalloc": ilock, iunlock
          /\ pc' = "ret"
          /\ UNCHANGED <<ptmem, freelist, rd, ilocked>>
     ELSE /\ ilocked' = TRUE
          /\ freelist' = AfterKalloc(freelist)
          /\ ptmem' = Store(ptmem, w.pte,
                PA2PTE(dst) + PTE_U + PTE_V + PTE_M
                + PROT2FLAG(vmatable[vi].prot))
          /\ rd' = [addr |-> addr, off |-> FaultFileOff(vmatable[vi], addr),
                    dst |-> dst, n |-> PGSIZE]
          /\ pc' = "readi"
          /\ UNCHANGED ret
  /\ UNCHANGED <<child, vmcall, calls, bvars>>
  /\ UNCHANGED <<pagetable, sz, vmatable, ftable, m, wb>>

\* The addresses the model faults on and unmaps at: every page of the model's
\* address range, at its start and 8 bytes into it.
PageAddrs == { p * PGSIZE : p \in 0..(MaxPages - 1) }
Addrs == { a + d : a \in PageAddrs, d \in {0, 8} }

MmapapageCall == \E a \in Addrs : MmapapageEnter(a)

\* What readi may return for a one-page read: an error, nothing, a page.
ReadResults == {-1, 0, PGSIZE}

\* readi returns rr; iunlock(ip); return.
MmapapageReadi(rr) ==
  /\ pc = "readi"
  /\ ilocked' = FALSE
  /\ ret' = IF rr = 0 THEN -1 ELSE 0
  /\ pc' = "ret"
  /\ UNCHANGED <<child, vmcall, calls, bvars>>
  /\ UNCHANGED <<pagetable, sz, vmatable, ftable, ptmem, freelist, m, wb, rd,
                 panicked>>

MmapapageRead == \E rr \in ReadResults : MmapapageReadi(rr)

\* ------------------------------------------------------------ munmap
\* The largest write of one file-system transaction.
WbMax == ((MAXOPBLOCKS - 1 - 1 - 2) \div 2) * BSIZE

\* A munmap that tests the protection only: v->prot & PROT_WRITE.
NeedsWritebackWritable(v) == BitAnd(v.prot, PROT_WRITE) # 0

\* Whether munmap writes region v back to its file.
NeedsWriteback(v) ==
  BitAnd(v.flags, MAP_SHARED) # 0 /\ BitAnd(v.prot, PROT_WRITE) # 0

\* A munmap whose search accepts addr == vma_high (the test addr > vma_high).
MunmapFindUpTo(vt, addr) ==
  IF \E i \in 1..MAXVMA : vt[i].addr # 0 /\ vt[i].addr <= addr
                          /\ vt[i].addr + vt[i].length >= addr
  THEN CHOOSE i \in 1..MAXVMA :
         /\ vt[i].addr # 0 /\ vt[i].addr <= addr /\ vt[i].addr + vt[i].length >= addr
         /\ \A j \in 1..(i - 1) :
              ~(vt[j].addr # 0 /\ vt[j].addr <= addr
                /\ vt[j].addr + vt[j].length >= addr)
  ELSE 0

\* The region munmap(addr, ..) operates on: the first active one with
\* vma_low <= addr < vma_high (0: none).
MunmapFind(vt, addr) == FindVma(vt, addr)

\* The requests the model draws munmap's arguments from: one, two or three
\* whole pages or a page and a byte from the start of any page, and one page
\* from 8 bytes into any page.
MunmapArgs ==
  { <<a, l>> : a \in PageAddrs, l \in {PGSIZE, PGSIZE + 1, 2 * PGSIZE, 3 * PGSIZE} }
  \cup { <<a + 8, PGSIZE>> : a \in PageAddrs }

\* munmap(addr, length), up to the write-back loop.
MunmapEnter(addr, length) ==
  LET low == PGROUNDDOWN(addr)
      high == PGROUNDUP(addr + length)
      n == high - low
      vi == MunmapFind(vmatable, addr)
  IN
  /\ pc = "idle" /\ ~panicked
  /\ IF vi = 0
     THEN /\ ret' = 0                          \* no region: return 0
          /\ pc' = "ret"
          /\ UNCHANGED m
     ELSE /\ m' = [NoCall EXCEPT !.low = low, !.high = high, !.n = n, !.v = vi,
                     !.off = IF NeedsWriteback(vmatable[vi])
                             THEN vmatable[vi].fileoff + (low - vmatable[vi].addr)
                             ELSE 0]
          /\ pc' = IF NeedsWriteback(vmatable[vi]) /\ 0 < n
                   THEN "wb" ELSE "update"
          /\ UNCHANGED ret
  /\ UNCHANGED <<child, vmcall, calls, bvars>>
  /\ UNCHANGED <<pagetable, sz, vmatable, ftable, ptmem, freelist, wb, rd,
                 ilocked, panicked>>

MunmapCall == \E a \in MunmapArgs : MunmapEnter(a[1], a[2])

\* What writei may return for a request of n1 bytes: an error, nothing, all
\* of it, and (drawn for the requests below the cap only) a short write of
\* one block.
WriteResults(n1) ==
  {-1, 0, n1} \cup (IF BSIZE < n1 /\ n1 < WbMax THEN {BSIZE} ELSE {})

\* A write-back loop without the cap: n1 = n - i.
WbChunkUncapped(n, i) == n - i

\* The size of the next write: n1 = n - i; if (n1 > max) n1 = max.
WbChunkSize(n, i) == IF n - i > WbMax THEN WbMax ELSE n - i

\* What one pass of the write-back loop calls, in order.
WbChunkCalls == <<"begin_op", "ilock", "writei", "iunlock", "end_op">>

\* The file offset after a write that returned r: if (r > 0) map_file_off += r.
WbNextOff(off, r) == IF r > 0 THEN off + r ELSE off

\* One pass of the write-back loop:
\*   n1; begin_op(); ilock(ip); r = writei(ip, 1, low + i, map_file_off, n1);
\*   iunlock(ip); end_op(); the tests of r; i += r; the loop condition i < n.
WbChunk(r) ==
  LET n1 == WbChunkSize(m.n, m.i) IN
  /\ pc = "wb"
  /\ r \in WriteResults(n1)
  /\ wb' = [bytes |-> wb.bytes + (IF r > 0 THEN r ELSE 0),
            off |-> m.off, src |-> m.low + m.i, n |-> n1,
            calls |-> WbChunkCalls]
  /\ IF r = 0
     THEN /\ m' = [m EXCEPT !.n1 = n1, !.r = r, !.off = WbNextOff(m.off, r)]
          /\ pc' = "update"
     ELSE IF r = -1
     THEN /\ m' = [m EXCEPT !.n1 = n1, !.r = r, !.off = WbNextOff(m.off, r),
                            !.ret = -1]
          /\ pc' = "update"
     ELSE /\ m' = [m EXCEPT !.n1 = n1, !.r = r, !.off = WbNextOff(m.off, r),
                            !.i = @ + r]
          /\ pc' = IF m.i + r < m.n THEN "wb" ELSE "update"
  /\ UNCHANGED <<child, vmcall, calls, bvars>>
  /\ UNCHANGED <<pagetable, sz, vmatable, ftable, ptmem, freelist, rd,
                 ilocked, ret, panicked>>

WbChunkCall == \E r \in WriteResults(WbChunkSize(m.n, m.i)) : WbChunk(r)

\* The bookkeeping the source keeps in a comment as "bug code": a removed
\* prefix moves addr to high and leaves length and fileoff as they were.
MunmapVmaStale(v, low, high) ==
  LET vma_low == v.addr
      vma_high == v.addr + v.length
  IN
  IF low = vma_low /\ high = vma_high THEN [v EXCEPT !.addr = 0]
  ELSE IF low > vma_low THEN [v EXCEPT !.length = low - vma_low]
  ELSE IF high < vma_high THEN [v EXCEPT !.addr = high]
  ELSE v

\* A bookkeeping whose removed suffix leaves length = high - vma_low.
MunmapVmaGrow(v, low, high) ==
  LET vma_low == v.addr
      vma_high == v.addr + v.length
  IN
  IF low = vma_low /\ high = vma_high THEN [v EXCEPT !.addr = 0]
  ELSE IF low > vma_low THEN [v EXCEPT !.length = high - vma_low]
  ELSE IF high < vma_high
  THEN [v EXCEPT !.length = v.length + v.addr - high,
                 !.fileoff = v.fileoff + high - v.addr,
                 !.addr = high]
  ELSE v

\* The region entry after munmap's bookkeeping for the range [low, high).
MunmapVma(v, low, high) ==
  LET vma_low == v.addr
      vma_high == v.addr + v.length
  IN
  IF low = vma_low /\ high = vma_high THEN [v EXCEPT !.addr = 0]
  ELSE IF low > vma_low THEN [v EXCEPT !.length = low - vma_low]
  ELSE IF high < vma_high
  THEN [v EXCEPT !.length = v.length + v.addr - high,
                 !.fileoff = v.fileoff + high - v.addr,
                 !.addr = high]
  ELSE v

\* Whether that bookkeeping releases the region's file.
MunmapCloses(v, low, high) == low = v.addr /\ high = v.addr + v.length

\* A munmap that returns as soon as the write-back has failed, its
\* bookkeeping and uvmunmap not done.
MunmapUpdateAbort ==
  LET v == vmatable[m.v]
      u == uvmunmap(ptmem, freelist, pagetable, m.low,
                    (m.high - m.low) \div PGSIZE, TRUE)
  IN
  /\ pc = "update"
  /\ IF m.ret = -1
     THEN UNCHANGED <<vmatable, ftable, ptmem, freelist, panicked>>
     ELSE /\ vmatable' = [vmatable EXCEPT ![m.v] = MunmapVma(v, m.low, m.high)]
          /\ ftable' = IF MunmapCloses(v, m.low, m.high)
                       THEN fileclose(ftable, v.f) ELSE ftable
          /\ ptmem' = u.pm
          /\ freelist' = u.fl
          /\ panicked' = u.panic
  /\ ret' = m.ret
  /\ pc' = "ret"
  /\ UNCHANGED <<child, vmcall, calls, bvars>>
  /\ UNCHANGED <<pagetable, sz, m, wb, rd, ilocked>>

\* The bookkeeping, uvmunmap(pg, low, (high - low) / PGSIZE, 1), return ret.
MunmapUpdate ==
  LET v == vmatable[m.v]
      u == uvmunmap(ptmem, freelist, pagetable, m.low,
                    (m.high - m.low) \div PGSIZE, TRUE)
  IN
  /\ pc = "update"
  /\ vmatable' = [vmatable EXCEPT ![m.v] = MunmapVma(v, m.low, m.high)]
  /\ ftable' = IF MunmapCloses(v, m.low, m.high)
               THEN fileclose(ftable, v.f) ELSE ftable
  /\ ptmem' = u.pm
  /\ freelist' = u.fl
  /\ panicked' = u.panic
  /\ ret' = m.ret
  /\ pc' = "ret"
  /\ UNCHANGED <<child, vmcall, calls, bvars>>
  /\ UNCHANGED <<pagetable, sz, m, wb, rd, ilocked>>

\* -------------------------------------------------------------- Init
\* The size of the process when it starts mapping: one page of memory, the
\* watermark 96 bytes short of the page's end.
InitSizes == {PGSIZE - 96}

\* A process with one page of memory at address 0: root table in frame 1, its
\* level-1 and level-0 tables in frames 2 and 3, the data page in frame 4.
Init ==
  /\ pagetable = Pa(1)
  /\ sz \in InitSizes
  /\ vmatable = [i \in 1..MAXVMA |-> FreeVma]
  /\ ftable = [f \in Fds |-> [ref |-> 1, readable |-> TRUE,
                              writable |-> (f = 0)]]
  /\ ptmem = [f \in Frames |->
       CASE f = 1 -> (0 :> (PA2PTE(Pa(2)) + PTE_V))
         [] f = 2 -> (0 :> (PA2PTE(Pa(3)) + PTE_V))
         [] f = 3 -> (0 :> (PA2PTE(Pa(4)) + PTE_W + PTE_X + PTE_R + PTE_U + PTE_V))
         [] OTHER -> EmptyTable]
  /\ freelist = [i \in 1..(NFrames - 4) |-> 4 + i]
  /\ pc = "idle"
  /\ m = NoCall
  /\ wb = NoWb
  /\ rd = NoRead
  /\ ilocked = FALSE
  /\ ret = 0
  /\ panicked = FALSE
  /\ child = NoChild
  /\ vmcall = NoVmCall
  /\ calls = 0
  /\ binit

Next ==
  \/ MmapCall
  \/ MmapapageCall
  \/ MmapapageRead
  \/ MunmapCall
  \/ WbChunkCall
  \/ MunmapUpdate
  \/ Return

Spec == Init /\ [][Next]_vars

\* ------------------------------------------------------------ claims
\* Every page address a request of the model can touch.
AllPages == { p * PGSIZE : p \in 0..(MaxPages + 3) }
Slots == 1..MAXVMA
Active(v) == v.addr # 0
\* The leaf entry of the page at va now, and after the step.
LeafNow(va) == Leaf(ptmem, pagetable, va)
LeafNext(va) == Leaf(ptmem', pagetable', va)

\* C1: a fault-in at an address inside a region reads one page of the file
\* from offset PGROUNDDOWN(faultAddr) - region.base + region.fileOffset.
\* Stated at the handler's call of readi.  The code passes addr - vma_low and
\* leaves v->fileoff out, so this fails for every region whose file offset is
\* not 0: one mapped at a non-zero offset, or one whose prefix was unmapped.
C1_FaultReadsAtRegionOffset ==
  pc = "readi" =>
    \E s \in Slots :
      /\ Active(vmatable[s])
      /\ vmatable[s].addr <= rd.addr
      /\ rd.addr < vmatable[s].addr + vmatable[s].length
      /\ rd.n = PGSIZE
      /\ rd.off = rd.addr - vmatable[s].addr + vmatable[s].fileoff

\* C5: no two active entries of the region table have intersecting ranges
\* [addr, addr + length).
C5_RegionsDisjoint ==
  \A i, j \in Slots :
    (i # j /\ Active(vmatable[i]) /\ Active(vmatable[j])) =>
      ~(/\ vmatable[i].addr < vmatable[j].addr + vmatable[j].length
        /\ vmatable[j].addr < vmatable[i].addr + vmatable[i].length)

\* Two regions are active, and munmap has just removed a prefix of the
\* second, which began where the first ends.
C5_Witness ==
  \E i, j \in Slots :
    /\ i # j /\ Active(vmatable[i]) /\ Active(vmatable[j])
    /\ pc = "ret" /\ m.v = j /\ vmatable[j].addr = m.high
    /\ vmatable[i].addr + vmatable[i].length = m.low

\* C6: for every active region, base and base + length are multiples of the
\* page size.  mmap stores the requested length as it is, so a region mapped
\* with a length that is no multiple of the page size breaks this.
C6_RegionsPageAligned ==
  \A s \in Slots :
    Active(vmatable[s]) =>
      /\ vmatable[s].addr % PGSIZE = 0
      /\ (vmatable[s].addr + vmatable[s].length) % PGSIZE = 0

\* The step in which munmap does its bookkeeping and unmaps [low, high).
UpdateStep == pc = "update" /\ pc' = "ret"
\* The region munmap has located, before and after that step.
Located == vmatable[m.v]
LocatedNext == vmatable'[m.v]

\* C2: when munmap removes whole pages from one edge of a region whose length
\* is a multiple of the page size, the region afterwards covers the original
\* range minus the removed one, va - base + fileOffset is the same for every
\* remaining page, the entries of the removed pages are cleared and every
\* other entry is unchanged.
C2_EdgeUnmap ==
  [][ ( /\ UpdateStep
        /\ Located.length % PGSIZE = 0
        /\ m.low < m.high
        /\ \/ m.low = Located.addr /\ m.high <= Located.addr + Located.length
           \/ m.high = Located.addr + Located.length /\ m.low >= Located.addr )
      =>
      LET v == Located
          w == LocatedNext
          vhigh == v.addr + v.length
          rest == { va \in AllPages :
                      v.addr <= va /\ va < vhigh /\ ~(m.low <= va /\ va < m.high) }
      IN
      /\ ~panicked'
      /\ Active(w) <=> rest # {}
      /\ Active(w) =>
           /\ rest = { va \in AllPages : w.addr <= va /\ va < w.addr + w.length }
           /\ w.addr % PGSIZE = 0 /\ w.length % PGSIZE = 0
           /\ \A va \in rest : va - w.addr + w.fileoff = va - v.addr + v.fileoff
           /\ m.low = v.addr =>
                /\ w.addr = v.addr + (m.high - m.low)
                /\ w.fileoff = v.fileoff + (m.high - m.low)
                /\ w.length = v.length - (m.high - m.low)
           /\ m.low > v.addr =>
                /\ w.addr = v.addr /\ w.fileoff = v.fileoff
                /\ w.length = v.length - (m.high - m.low)
      /\ \A va \in AllPages :
           IF m.low <= va /\ va < m.high THEN LeafNext(va) = 0
           ELSE LeafNext(va) = LeafNow(va)
    ]_vars

\* munmap has removed the first page of a region of whole pages: the region
\* now begins at high, the removed page's entry is clear and the next page,
\* which had been faulted in, is still backed.
C2_Witness ==
  /\ pc = "ret" /\ m.v # 0 /\ m.high = m.low + PGSIZE
  /\ Active(Located) /\ Located.addr = m.high
  /\ Located.length % PGSIZE = 0 /\ Located.fileoff = PGSIZE
  /\ LeafNow(m.low) = 0
  /\ PTE2PA(LeafNow(m.high)) # 0

\* C3 as claimed: munmap locates the region by overlap: every request whose
\* page-rounded range [low, high) intersects an active region, its start
\* address below the region's base included, operates on that region.
C3_LocatesByOverlap ==
  [][ \A a \in MunmapArgs : \A s \in Slots :
        ( /\ MunmapEnter(a[1], a[2])
          /\ Active(vmatable[s])
          /\ PGROUNDDOWN(a[1]) < vmatable[s].addr + vmatable[s].length
          /\ vmatable[s].addr < PGROUNDUP(a[1] + a[2]) )
        => (pc' \in {"wb", "update"} /\ m'.v = s)
    ]_vars

\* C3 as amended: munmap locates the region by its start address.  A request
\* operates on the active region with base <= addr < base + length, whatever
\* part of [low, high) lies inside it: that region's entry is the only one
\* its bookkeeping changes, and every page of [low, high) is unmapped.  A
\* request whose start address lies in no active region, even when its range
\* intersects one, changes nothing and returns 0 (a step that finds no region
\* is the same for every length, so it is examined for the length PGSIZE).
C3_LocatesByStartAddress ==
  [][ /\ (pc = "idle" /\ pc' \in {"wb", "update"}) =>
           \A a \in MunmapArgs :
             ( /\ m'.low = PGROUNDDOWN(a[1])
               /\ m'.high = PGROUNDUP(a[1] + a[2])
               /\ MunmapEnter(a[1], a[2]) ) =>
               /\ Active(vmatable[m'.v])
               /\ vmatable[m'.v].addr <= a[1]
               /\ a[1] < vmatable[m'.v].addr + vmatable[m'.v].length
      /\ (pc = "idle" /\ pc' = "ret" /\ sz' = sz /\ ret' = 0) =>
           \A a \in MunmapArgs :
             (a[2] = PGSIZE /\ MunmapEnter(a[1], a[2])) =>
               /\ ~ \E s \in Slots :
                      /\ Active(vmatable[s]) /\ vmatable[s].addr <= a[1]
                      /\ a[1] < vmatable[s].addr + vmatable[s].length
               /\ UNCHANGED <<vmatable, ptmem, freelist, ftable, sz>>
      /\ UpdateStep =>
           /\ \A s \in Slots \ {m.v} : vmatable'[s] = vmatable[s]
           /\ \A va \in AllPages :
                (m.low <= va /\ va < m.high) => LeafNext(va) = 0
    ]_vars

\* munmap was called with a start address inside a region and a range that
\* covers only the tail of it: the region now ends at low.
C3_Witness ==
  /\ pc = "ret" /\ m.v # 0 /\ Active(Located)
  /\ Located.addr < m.low
  /\ Located.addr + Located.length = m.low
  /\ LeafNow(m.low) = 0

\* C4: a region holds one reference on its file, released when the region is
\* fully unmapped: munmap of a region's base with the length it was mapped
\* with (its range runs from base to PGROUNDUP(base + length)) frees the slot
\* and closes the file.  For a length that is no multiple of the page size
\* the code frees neither: high differs from vma_high, no branch of the
\* bookkeeping applies, and the slot stays active with its pages unmapped.
C4_FullUnmapFreesSlot ==
  [][ ( /\ UpdateStep
        /\ m.low = Located.addr
        /\ m.high = PGROUNDUP(Located.addr + Located.length) )
      => /\ ~Active(LocatedNext)
         /\ ftable'[Located.f].ref = ftable[Located.f].ref - 1
    ]_vars

\* The frames on the free list.
FreeFrames(fl) == { fl[k] : k \in 1..Len(fl) }

\* C7: munmap writes to the file if and only if the region it located is both
\* shared and writable; every write is issued before the bookkeeping and the
\* removal of the pages, which a write step leaves untouched; a private or
\* read-only region is unmapped without any write.
C7_WritebackIffSharedWritable ==
  [][ /\ pc' = "update" =>
           ( wb'.n > 0 <=>
               /\ BitAnd(vmatable'[m'.v].flags, MAP_SHARED) # 0
               /\ BitAnd(vmatable'[m'.v].prot, PROT_WRITE) # 0 )
      /\ (wb' # wb /\ wb'.n > 0) =>
           /\ pc = "wb" /\ pc' \in {"wb", "update"}
           /\ UNCHANGED <<vmatable, ftable, ptmem, freelist, sz>>
      /\ UpdateStep => wb' = wb
      /\ (pc = "ret" /\ m.v # 0) => wb' = NoWb
    ]_vars

\* munmap is about to update a region it has written back.
C7_Witness ==
  /\ pc = "update" /\ wb.n > 0 /\ wb.bytes = m.n
  /\ BitAnd(Located.flags, MAP_SHARED) # 0
  /\ PTE2PA(LeafNow(m.low)) # 0

\* C8: every pass of the write-back loop calls begin_op, ilock, writei,
\* iunlock, end_op in this order, asks writei for at most
\* ((MAXOPBLOCKS-1-1-2)/2)*BSIZE bytes, at file offset
\* fileoff + (low - base) + the bytes written before, from user address
\* low + the bytes written before; a pass either leaves the loop or writes at
\* least one byte and stays within [low, high), and when every write is
\* complete the loop is left with exactly high - low bytes written.
C8_WritebackChunks ==
  [][ pc = "wb" =>
        LET v == Located IN
        /\ wb'.calls = <<"begin_op", "ilock", "writei", "iunlock", "end_op">>
        /\ 0 < wb'.n
        /\ wb'.n <= ((MAXOPBLOCKS - 1 - 1 - 2) \div 2) * BSIZE
        /\ wb'.off = v.fileoff + (m.low - v.addr) + wb.bytes
        /\ wb'.src = m.low + wb.bytes
        /\ wb'.src + wb'.n <= m.high
        /\ wb.bytes <= wb'.bytes /\ wb'.bytes <= wb.bytes + wb'.n
        /\ m'.i = wb'.bytes
        /\ pc' = "wb" => (wb.bytes < wb'.bytes /\ wb'.bytes < m.n)
        /\ (pc' = "update" /\ m'.r > 0) => wb'.bytes = m.n
        /\ (wb'.bytes = wb.bytes + wb'.n /\ wb'.bytes < m.n) => pc' = "wb"
    ]_vars

\* A write-back of two pages has been written in full, in three chunks.
C8_Witness ==
  /\ pc = "update" /\ m.n = 2 * PGSIZE /\ wb.bytes = m.n /\ m.ret = 0
  /\ wb.n = 2 * PGSIZE - 2 * WbMax
  /\ wb.src + wb.n = m.high

\* C9: a write that returns 0 ends the write-back and munmap returns 0; one
\* that returns -1 ends it and munmap returns -1; no further write follows,
\* and the bookkeeping and the removal and freeing of the pages of
\* [low, high) are what they are after a complete write-back: they depend on
\* the region and the range only.
C9_WritebackFailureStillUnmaps ==
  [][ /\ (pc = "wb" /\ m'.r <= 0) =>
           /\ pc' = "update"
           /\ m'.ret = (IF m'.r < 0 THEN -1 ELSE 0)
      /\ UpdateStep =>
           LET v == Located
               w == LocatedNext
               vhigh == v.addr + v.length
           IN
           /\ ret' = (IF m.r < 0 THEN -1 ELSE 0)
           /\ wb' = wb
           /\ ~panicked'
           /\ IF m.low = v.addr /\ m.high = vhigh
              THEN /\ ~Active(w)
                   /\ ftable'[v.f].ref = ftable[v.f].ref - 1
              ELSE /\ ftable' = ftable
                   /\ IF m.low > v.addr
                      THEN w = [v EXCEPT !.length = m.low - v.addr]
                      ELSE IF m.high < vhigh
                      THEN w = [v EXCEPT !.addr = m.high,
                                         !.length = vhigh - m.high,
                                         !.fileoff = v.fileoff + (m.high - v.addr)]
                      ELSE w = v
           /\ \A va \in AllPages :
                (m.low <= va /\ va < m.high) =>
                  /\ LeafNext(va) = 0
                  /\ PTE2PA(LeafNow(va)) # 0 =>
                       PTE2PA(LeafNow(va)) \div PGSIZE \in FreeFrames(freelist')
    ]_vars

\* munmap returns -1 after a failed write, the page it was to write, which
\* had a frame, unmapped and the region cut.
C9_Witness ==
  /\ pc = "ret" /\ ret = -1 /\ m.v # 0 /\ m.r = -1
  /\ wb.n > 0 /\ wb.bytes < m.n
  /\ LeafNow(m.low) = 0
  /\ Located.addr = m.high

\* C10: a successful mmap of length L returns PGROUNDUP(size), grows the size
\* by ceil(L / PGSIZE) pages, leaves every page of the new range a valid
\* user leaf with the tag bit, no R/W/X bit and physical address 0, takes no
\* frame, and writes base, L, prot, flags, the offset and the file, whose
\* reference count it raises, into a slot that was free.
C10_MmapReserves ==
  [][ \A a \in MmapArgs :
        (Mmap(a.length, a.prot, a.flags, a.fd, a.offset) /\ ret' # -1) =>
          LET base == PGROUNDUP(sz)
              npages == (a.length + PGSIZE - 1) \div PGSIZE
          IN
          /\ ret' = base
          /\ sz' = sz + npages * PGSIZE
          /\ \A va \in AllPages :
               IF base <= va /\ va < base + npages * PGSIZE
               THEN LeafNext(va) = PTE_V + PTE_U + PTE_M
               ELSE LeafNext(va) = LeafNow(va)
          /\ freelist' = freelist
          /\ \E s \in Slots :
               /\ ~Active(vmatable[s])
               /\ vmatable'[s] = [addr |-> base, length |-> a.length,
                                  prot |-> a.prot, flags |-> a.flags,
                                  fileoff |-> a.offset, f |-> a.fd]
               /\ \A t \in Slots \ {s} : vmatable'[t] = vmatable[t]
          /\ ftable'[a.fd].ref = ftable[a.fd].ref + 1
          /\ ~panicked'
    ]_vars

\* mmap has returned the base of a second region, of a page and a byte at a
\* file offset of one page, both of its pages reserved and unbacked.
C10_Witness ==
  /\ pc = "ret" /\ ret > PGSIZE
  /\ \E s \in Slots :
       /\ vmatable[s].addr = ret /\ vmatable[s].length = PGSIZE + 1
       /\ vmatable[s].fileoff = PGSIZE
       /\ LeafNow(ret) = PTE_V + PTE_U + PTE_M
       /\ LeafNow(ret + PGSIZE) = PTE_V + PTE_U + PTE_M
       /\ PGROUNDUP(sz) = ret + 2 * PGSIZE


\* =================================================== a full region table
\* The model stops mapping once the address space would pass
\* MAXVMA + MaxExtra pages.
MaxExtra == 3

\* Page tables and free list of a process with one page of memory at
\* address 0, as in Init, with nframes frames of physical memory.
InitMem(nframes) ==
  [f \in 1..nframes |->
     CASE f = 1 -> (0 :> (PA2PTE(Pa(2)) + PTE_V))
       [] f = 2 -> (0 :> (PA2PTE(Pa(3)) + PTE_V))
       [] f = 3 -> (0 :> (PA2PTE(Pa(4)) + PTE_W + PTE_X + PTE_R + PTE_U + PTE_V))
       [] OTHER -> EmptyTable]
InitFree(nframes) == [i \in 1..(nframes - 4) |-> 4 + i]

\* Three open files: 0 read-write, 1 read-only, 2 write-only.
SlotFds == {0, 1, 2}
SlotFiles ==
  [f \in SlotFds |-> [ref |-> 1, readable |-> (f # 2), writable |-> (f # 1)]]

\* The process after one more successful call
\* mmap(0, PGSIZE, PROT_READ, MAP_PRIVATE, 0, 0).
AfterMmap(st) ==
  LET first_free == PGROUNDUP(st.sz)
      slot == FirstFreeSlot(st.vt)
  IN
  CHOOSE next \in
    { [pm |-> r.pm, fl |-> r.fl, sz |-> r.sz,
       vt |-> [st.vt EXCEPT ![slot] =
                 MmapVma(first_free, PGSIZE, PROT_READ, MAP_PRIVATE, 0, 0)],
       ft |-> filedup(st.ft, 0)] :
      r \in {MmapReserve(st.pm, st.fl, Pa(1), first_free, 0, PGSIZE, st.sz)} } :
    TRUE

\* The process after k such calls.
RECURSIVE AfterMmaps(_, _)
AfterMmaps(st, k) ==
  IF k = 0 THEN st
  ELSE CHOOSE res \in { AfterMmaps(next, k - 1) : next \in {AfterMmap(st)} } :
         TRUE

\* The numbers of regions the process starts with: one slot free, none free.
SlotInitRegions == {MAXVMA - 1, MAXVMA}

SlotInit ==
  \E k \in SlotInitRegions :
    LET st == AfterMmaps([pm |-> InitMem(NFrames), fl |-> InitFree(NFrames),
                          sz |-> PGSIZE - 96,
                          vt |-> [i \in 1..MAXVMA |-> FreeVma],
                          ft |-> SlotFiles], k)
    IN
    /\ pagetable = Pa(1)
    /\ sz = st.sz
    /\ vmatable = st.vt
    /\ ftable = st.ft
    /\ ptmem = st.pm
    /\ freelist = st.fl
    /\ pc = "idle"
    /\ m = NoCall
    /\ wb = NoWb
    /\ rd = NoRead
    /\ ilocked = FALSE
    /\ ret = 0
    /\ panicked = FALSE
    /\ child = NoChild
    /\ vmcall = NoVmCall
    /\ calls = 0
    /\ binit

\* The requests of mmap: one page of file 0 read-only and private; one page
\* of the write-only file for reading; one shared writable page of the
\* read-only file; a page and a byte of file 0.
SlotMmapArgs ==
  { [length |-> PGSIZE, prot |-> PROT_READ, flags |-> MAP_PRIVATE,
     fd |-> 0, offset |-> 0],
    [length |-> PGSIZE, prot |-> PROT_READ, flags |-> MAP_PRIVATE,
     fd |-> 2, offset |-> 0],
    [length |-> PGSIZE, prot |-> PROT_READ + PROT_WRITE, flags |-> MAP_SHARED,
     fd |-> 1, offset |-> 0],
    [length |-> PGSIZE + 1, prot |-> PROT_READ, flags |-> MAP_PRIVATE,
     fd |-> 0, offset |-> 0] }

SlotMmapCall ==
  \E a \in SlotMmapArgs :
    /\ PGROUNDUP(sz) + PGROUNDUP(a.length) <= (MAXVMA + MaxExtra) * PGSIZE
    /\ MmapStep(a.length, a.prot, a.flags, a.fd, a.offset)

\* The requests of munmap: the whole of the first, the second or the last
\* of the regions the process starts with.
SlotMunmapArgs ==
  { <<PGSIZE, PGSIZE>>, <<2 * PGSIZE, PGSIZE>>, <<MAXVMA * PGSIZE, PGSIZE>> }

SlotMunmapCall == \E a \in SlotMunmapArgs : MunmapEnter(a[1], a[2])

SlotNext ==
  \/ SlotMmapCall
  \/ SlotMunmapCall
  \/ MunmapUpdate
  \/ Return

SlotSpec == SlotInit /\ [][SlotNext]_vars

\* Every page address of that address space.
SlotPages == { p * PGSIZE : p \in 0..(MAXVMA + MaxExtra + 1) }

\* C11: mmap returns -1 exactly when read access is asked of a file that is
\* not readable, a shared writable mapping is asked of a file that is not
\* writable, or every slot is active (the reservation itself succeeding);
\* then the region table and the files' reference counts are unchanged while
\* the pages stay reserved and the size stays grown.  Otherwise mmap claims a
\* slot that was free, one freed by an earlier munmap included.
C11_MmapFailures ==
  [][ \A a \in SlotMmapArgs :
        MmapStep(a.length, a.prot, a.flags, a.fd, a.offset) =>
          LET base == PGROUNDUP(sz)
              npages == (a.length + PGSIZE - 1) \div PGSIZE
              noread == ~ftable[a.fd].readable /\ BitAnd(a.prot, PROT_READ) # 0
              nowrite == /\ BitAnd(a.flags, MAP_SHARED) # 0
                         /\ ~ftable[a.fd].writable
                         /\ BitAnd(a.prot, PROT_WRITE) # 0
              full == \A s \in Slots : Active(vmatable[s])
          IN
          /\ (ret' = -1) <=> (noread \/ nowrite \/ full)
          /\ ~panicked'
          /\ sz' = sz + npages * PGSIZE
          /\ \A va \in SlotPages :
               IF base <= va /\ va < base + npages * PGSIZE
               THEN LeafNext(va) = PTE_V + PTE_U + PTE_M
               ELSE LeafNext(va) = LeafNow(va)
          /\ ret' = -1 => (vmatable' = vmatable /\ ftable' = ftable)
          /\ ret' # -1 =>
               /\ ret' = base
               /\ \E s \in Slots :
                    /\ ~Active(vmatable[s])
                    /\ vmatable'[s].addr = base /\ vmatable'[s].f = a.fd
                    /\ \A t \in Slots \ {s} : vmatable'[t] = vmatable[t]
               /\ ftable'[a.fd].ref = ftable[a.fd].ref + 1
    ]_vars

\* The table was full, an mmap failed and left its page reserved in no
\* region, a region was unmapped whole, and mmap has now claimed its slot:
\* the table is full again.
C11_Witness ==
  /\ pc = "ret" /\ ret > MAXVMA * PGSIZE
  /\ \A s \in Slots : Active(vmatable[s])
  /\ \E s \in Slots : vmatable[s].addr = ret
  /\ \E va \in SlotPages :
       /\ va < ret /\ LeafNow(va) = PTE_V + PTE_U + PTE_M
       /\ \A s \in Slots :
            ~(vmatable[s].addr <= va /\ va < vmatable[s].addr + vmatable[s].length)
  /\ \E va \in SlotPages : 0 < va /\ va < ret /\ LeafNow(va) = 0

\* =========================================================== fault-in
\* The step of mmapapage that installs a frame, and its target page.
InstallStep == pc = "idle" /\ pc' = "readi"

\* C12: a fault-in on a reserved-unbacked page of an active region takes
\* exactly one frame from the allocator, a frame no entry referred to, makes
\* the page's entry a backed user leaf with the tag and exactly the region's
\* protection bits, and changes no other entry and no region; it succeeds
\* unless readi returns 0.  A fault whose page lies in no active region or
\* whose entry lacks the tag installs nothing: a fault that returns -1 before
\* readi leaves page tables and free list unchanged.
C12_FaultInstallsOnePage ==
  [][ /\ InstallStep =>
           LET addr == rd'.addr
               frame == rd'.dst \div PGSIZE
           IN
           /\ BitAnd(LeafNow(addr), PTE_M) # 0
           /\ \E s \in Slots :
                /\ Active(vmatable[s])
                /\ vmatable[s].addr <= addr
                /\ addr < vmatable[s].addr + vmatable[s].length
                /\ LeafNow(addr) = PTE_V + PTE_U + PTE_M =>
                     /\ PTE_FLAGS(LeafNext(addr)) =
                          PTE_V + PTE_U + PTE_M
                          + (IF BitAnd(vmatable[s].prot, PROT_READ) # 0
                             THEN PTE_R ELSE 0)
                          + (IF BitAnd(vmatable[s].prot, PROT_WRITE) # 0
                             THEN PTE_W ELSE 0)
                     /\ PTE2PA(LeafNext(addr)) = rd'.dst
           /\ freelist = <<frame>> \o freelist'
           /\ \A va \in AllPages : PTE2PA(LeafNow(va)) # rd'.dst
           /\ \A va \in AllPages \ {addr} : LeafNext(va) = LeafNow(va)
           /\ UNCHANGED <<vmatable, sz, ftable>>
      /\ (pc = "readi" /\ pc' = "ret") =>
           /\ ret' \in {0, -1}
           /\ UNCHANGED <<ptmem, freelist, vmatable, sz>>
      /\ (pc = "idle" /\ pc' = "ret" /\ ret' = -1 /\ sz' = sz) =>
           UNCHANGED <<ptmem, freelist, vmatable>>
    ]_vars

\* Two pages of one region have been faulted in, the second just now, into
\* different frames.
C12_Witness ==
  /\ pc = "ret" /\ ret = 0 /\ rd.dst # 0
  /\ \E s \in Slots :
       /\ Active(vmatable[s])
       /\ rd.addr = vmatable[s].addr + PGSIZE
       /\ PTE2PA(LeafNow(rd.addr)) = rd.dst
       /\ PTE2PA(LeafNow(vmatable[s].addr)) # 0
       /\ PTE2PA(LeafNow(vmatable[s].addr)) # rd.dst
       /\ BitAnd(LeafNow(rd.addr), PTE_W) # 0

\* ============================================ address-space operations
\* Number of physical page frames of the address-space model.
VmFrames == 8
\* The number of address-space calls in one behaviour of the model.
MaxCalls == 3

\* mappages(pagetable, va, size, pa, perm): the loop from a to last;
\* MappagesAt is one pass of it, w what walk(pagetable, a, 1) returned.
RECURSIVE MappagesLoop(_, _, _, _, _, _, _)
MappagesAt(w, root, a, last, pa, perm) ==
  IF w.panic THEN [r |-> -1, pm |-> w.pm, fl |-> w.fl, panic |-> TRUE]
  ELSE IF w.pte = <<>>
  THEN [r |-> -1, pm |-> w.pm, fl |-> w.fl, panic |-> FALSE]
  ELSE IF BitAnd(Deref(w.pm, w.pte), PTE_V) # 0
  THEN [r |-> -1, pm |-> w.pm, fl |-> w.fl, panic |-> TRUE]       \* "remap"
  ELSE IF a = last
  THEN [r |-> 0, pm |-> Store(w.pm, w.pte, PA2PTE(pa) + BitOr(perm, PTE_V)),
        fl |-> w.fl, panic |-> FALSE]
  ELSE MappagesLoop(Store(w.pm, w.pte, PA2PTE(pa) + BitOr(perm, PTE_V)),
                    w.fl, root, a + PGSIZE, last, pa + PGSIZE, perm)

MappagesLoop(pm, fl, root, a, last, pa, perm) ==
  MappagesAt(walk(pm, fl, root, a, TRUE), root, a, last, pa, perm)

mappages(pm, fl, root, va, size, pa, perm) ==
  MappagesLoop(pm, fl, root, PGROUNDDOWN(va), PGROUNDDOWN(va + size - 1),
               pa, perm)

\* A shrink that unmaps from the page newsz lies in, not from the next one.
UvmdeallocRoundDown(pm, fl, root, oldsz, newsz) ==
  IF newsz >= oldsz
  THEN [sz |-> oldsz, pm |-> pm, fl |-> fl, panic |-> FALSE]
  ELSE IF PGROUNDDOWN(newsz) < PGROUNDUP(oldsz)
  THEN [sz |-> newsz] @@
       uvmunmap(pm, fl, root, PGROUNDDOWN(newsz),
                (PGROUNDUP(oldsz) - PGROUNDDOWN(newsz)) \div PGSIZE, TRUE)
  ELSE [sz |-> newsz, pm |-> pm, fl |-> fl, panic |-> FALSE]

\* uvmdealloc(pagetable, oldsz, newsz)
uvmdealloc(pm, fl, root, oldsz, newsz) ==
  IF newsz >= oldsz
  THEN [sz |-> oldsz, pm |-> pm, fl |-> fl, panic |-> FALSE]
  ELSE IF PGROUNDUP(newsz) < PGROUNDUP(oldsz)
  THEN [sz |-> newsz] @@
       uvmunmap(pm, fl, root, PGROUNDUP(newsz),
                (PGROUNDUP(oldsz) - PGROUNDUP(newsz)) \div PGSIZE, TRUE)
  ELSE [sz |-> newsz, pm |-> pm, fl |-> fl, panic |-> FALSE]

\* uvmalloc's failure exit: d is what uvmdealloc(pagetable, a, oldsz) left.
UvmallocFailed(d, got) ==
  [r |-> 0, pm |-> d.pm, fl |-> d.fl, panic |-> d.panic, got |-> got]

\* uvmalloc's loop for(a = oldsz; a < newsz; a += PGSIZE), oldsz rounded up;
\* got collects the frames kalloc returned to uvmalloc itself.
\* UvmallocMapped is the pass after mappages returned mp for the frame mem.
RECURSIVE UvmallocLoop(_, _, _, _, _, _, _)
\* A failure exit after mappages that keeps the frame instead of freeing it.
UvmallocMappedLeak(mp, mem, root, a, oldsz, newsz, got) ==
  IF mp.panic
  THEN [r |-> 0, pm |-> mp.pm, fl |-> mp.fl, panic |-> TRUE, got |-> got]
  ELSE IF mp.r # 0
  THEN UvmallocFailed(uvmdealloc(mp.pm, mp.fl, root, a, oldsz), got)
  ELSE UvmallocLoop(mp.pm, mp.fl, root, a + PGSIZE, oldsz, newsz, got)

UvmallocMapped(mp, mem, root, a, oldsz, newsz, got) ==
  IF mp.panic
  THEN [r |-> 0, pm |-> mp.pm, fl |-> mp.fl, panic |-> TRUE, got |-> got]
  ELSE IF mp.r # 0
  THEN UvmallocFailed(uvmdealloc(mp.pm, kfree(mp.fl, mem), root, a, oldsz),
                      got)
  ELSE UvmallocLoop(mp.pm, mp.fl, root, a + PGSIZE, oldsz, newsz, got)

UvmallocLoop(pm, fl, root, a, oldsz, newsz, got) ==
  IF a >= newsz
  THEN [r |-> newsz, pm |-> pm, fl |-> fl, panic |-> FALSE, got |-> got]
  ELSE IF kalloc(fl) = 0
  THEN UvmallocFailed(uvmdealloc(pm, fl, root, a, oldsz), got)
  ELSE UvmallocMapped(mappages(pm, AfterKalloc(fl), root, a, PGSIZE,
                               kalloc(fl), PTE_W + PTE_X + PTE_R + PTE_U),
                      kalloc(fl), root, a, oldsz, newsz,
                      Append(got, kalloc(fl) \div PGSIZE))

\* uvmalloc(pagetable, oldsz, newsz)
uvmalloc(pm, fl, root, oldsz, newsz) ==
  IF newsz < oldsz
  THEN [r |-> oldsz, pm |-> pm, fl |-> fl, panic |-> FALSE, got |-> <<>>]
  ELSE UvmallocLoop(pm, fl, root, PGROUNDUP(oldsz), PGROUNDUP(oldsz), newsz,
                    <<>>)

\* uvmcopy's err exit: u is what uvmunmap(new, 0, i / PGSIZE, 1) left.
UvmcopyErr(u, got) ==
  [r |-> -1, pm |-> u.pm, fl |-> u.fl, panic |-> u.panic, got |-> got]

\* uvmcopy's loop for(i = 0; i < sz; i += PGSIZE); got collects the frames
\* kalloc returned to uvmcopy itself.  UvmcopyAt is one pass, w what
\* walk(old, i, 0) returned; UvmcopyMapped the rest of the pass after
\* mappages returned mp for the frame mem.
RECURSIVE UvmcopyLoop(_, _, _, _, _, _, _)
UvmcopyMapped(mp, mem, old, new, i, size, got) ==
  IF mp.panic
  THEN [r |-> -1, pm |-> mp.pm, fl |-> mp.fl, panic |-> TRUE, got |-> got]
  ELSE IF mp.r # 0
  THEN UvmcopyErr(uvmunmap(mp.pm, kfree(mp.fl, mem), new, 0, i \div PGSIZE,
                           TRUE), got)
  ELSE UvmcopyLoop(mp.pm, mp.fl, old, new, i + PGSIZE, size, got)

\* A pass of uvmcopy's loop that maps old's frame into new instead of the
\* frame it allocated.
UvmcopyAtShared(w, pm, fl, old, new, i, size, got) ==
  IF w.panic \/ w.pte = <<>>
  THEN [r |-> -1, pm |-> pm, fl |-> fl, panic |-> TRUE, got |-> got]
  ELSE IF BitAnd(Deref(pm, w.pte), PTE_V) = 0
  THEN UvmcopyLoop(pm, fl, old, new, i + PGSIZE, size, got)
  ELSE IF BitAnd(PTE_FLAGS(Deref(pm, w.pte)), PTE_M) # 0
  THEN UvmcopyLoop(pm, fl, old, new, i + PGSIZE, size, got)
  ELSE IF kalloc(fl) = 0
  THEN UvmcopyErr(uvmunmap(pm, fl, new, 0, i \div PGSIZE, TRUE), got)
  ELSE UvmcopyMapped(mappages(pm, AfterKalloc(fl), new, i, PGSIZE,
                              PTE2PA(Deref(pm, w.pte)),
                              PTE_FLAGS(Deref(pm, w.pte))),
                     kalloc(fl), old, new, i, size,
                     Append(got, kalloc(fl) \div PGSIZE))

UvmcopyAt(w, pm, fl, old, new, i, size, got) ==
  IF w.panic \/ w.pte = <<>>                    \* "uvmcopy: pte should exist"
  THEN [r |-> -1, pm |-> pm, fl |-> fl, panic |-> TRUE, got |-> got]
  ELSE IF BitAnd(Deref(pm, w.pte), PTE_V) = 0
  THEN UvmcopyLoop(pm, fl, old, new, i + PGSIZE, size, got)
  ELSE IF BitAnd(PTE_FLAGS(Deref(pm, w.pte)), PTE_M) # 0
  THEN UvmcopyLoop(pm, fl, old, new, i + PGSIZE, size, got)
  ELSE IF kalloc(fl) = 0
  THEN UvmcopyErr(uvmunmap(pm, fl, new, 0, i \div PGSIZE, TRUE), got)
  ELSE UvmcopyMapped(mappages(pm, AfterKalloc(fl), new, i, PGSIZE, kalloc(fl),
                              PTE_FLAGS(Deref(pm, w.pte))),
                     kalloc(fl), old, new, i, size,
                     Append(got, kalloc(fl) \div PGSIZE))

UvmcopyLoop(pm, fl, old, new, i, size, got) ==
  IF i >= size
  THEN [r |-> 0, pm |-> pm, fl |-> fl, panic |-> FALSE, got |-> got]
  ELSE UvmcopyAt(walk(pm, fl, old, i, FALSE), pm, fl, old, new, i, size, got)

\* uvmcopy(old, new, sz)
uvmcopy(pm, fl, old, new, size) == UvmcopyLoop(pm, fl, old, new, 0, size, <<>>)

\* freewalk(pagetable) from entry i on, for the table page at tab, which is
\* `level` levels above the leaves.  The code takes every valid entry
\* without R, W, X for a pointer to a lower table; when such an entry sits in
\* a level-0 table it is a leaf, what the code then reads is not a page
\* table, and the walk is cut there with followed set.
RECURSIVE FreewalkEntries(_, _, _, _, _)
FreewalkEntries(pm, fl, tab, i, level) ==
  LET rest == { j \in DOMAIN pm[tab \div PGSIZE] : j >= i } IN
  IF rest = {}
  THEN [pm |-> pm, fl |-> kfree(fl, tab), panic |-> FALSE, followed |-> FALSE]
  ELSE
  LET j == CHOOSE x \in rest : \A y \in rest : x <= y
      pte == pm[tab \div PGSIZE][j]
  IN
  IF /\ BitAnd(pte, PTE_V) # 0
     /\ BitAnd(pte, PTE_R) + BitAnd(pte, PTE_W) + BitAnd(pte, PTE_X) = 0
  THEN IF level = 0
       THEN [pm |-> pm, fl |-> fl, panic |-> FALSE, followed |-> TRUE]
       ELSE LET c == FreewalkEntries(pm, fl, PTE2PA(pte), 0, level - 1) IN
            IF c.panic \/ c.followed THEN c
            ELSE FreewalkEntries(
                   [c.pm EXCEPT ![tab \div PGSIZE] = SetEntry(@, j, 0)],
                   c.fl, tab, j + 1, level)
  ELSE IF BitAnd(pte, PTE_V) # 0
  THEN [pm |-> pm, fl |-> fl, panic |-> TRUE, followed |-> FALSE]  \* "leaf"
  ELSE FreewalkEntries(pm, fl, tab, j + 1, level)

freewalk(pm, fl, root) == FreewalkEntries(pm, fl, root, 0, 2)

\* uvmfree(pagetable, sz); UvmfreeWalk is its freewalk, u what uvmunmap left.
UvmfreeWalk(u, root) ==
  IF u.panic
  THEN [pm |-> u.pm, fl |-> u.fl, panic |-> TRUE, followed |-> FALSE]
  ELSE freewalk(u.pm, u.fl, root)

uvmfree(pm, fl, root, size) ==
  UvmfreeWalk(IF size > 0
              THEN uvmunmap(pm, fl, root, 0, PGROUNDUP(size) \div PGSIZE, TRUE)
              ELSE [pm |-> pm, fl |-> fl, panic |-> FALSE],
              root)

\* The two address spaces: "p", the process, and "c", the child made by
\* uvmcopy; their roots and sizes.
Spaces == {"p", "c"}
Root(t) == IF t = "p" THEN pagetable ELSE child.root
Size(t) == IF t = "p" THEN sz ELSE child.sz
Alive(t) == Root(t) # 0

\* The sizes the model grows and shrinks address spaces to.
VmSizes == {0, PGSIZE - 96, PGSIZE, 3 * PGSIZE}

VmCall(op, t, a, b, got, followed) ==
  [op |-> op, t |-> t, a |-> a, b |-> b, got |-> got, segs |-> <<>>,
   followed |-> followed]

\* sz = uvmalloc(pagetable, sz, newsz) on address space t; the size is kept
\* when uvmalloc returns 0.
Uvmalloc(t, newsz) ==
  /\ pc = "idle" /\ ~panicked /\ Alive(t) /\ calls < MaxCalls
  /\ calls' = calls + 1
  /\ UNCHANGED bvars
  /\ \E r \in { uvmalloc(ptmem, freelist, Root(t), Size(t), newsz) } :
       /\ ptmem' = r.pm
       /\ freelist' = r.fl
       /\ panicked' = r.panic
       /\ IF t = "p"
          THEN sz' = (IF r.r = 0 THEN sz ELSE r.r) /\ UNCHANGED child
          ELSE /\ child' = [child EXCEPT !.sz = IF r.r = 0 THEN @ ELSE r.r]
               /\ UNCHANGED sz
       /\ ret' = r.r
       /\ vmcall' = VmCall("uvmalloc", t, Size(t), newsz, r.got, FALSE)
  /\ pc' = "ret"
  /\ UNCHANGED <<pagetable, vmatable, ftable, m, wb, rd, ilocked>>

UvmallocCall == \E t \in Spaces, newsz \in VmSizes : Uvmalloc(t, newsz)

\* sz = uvmdealloc(pagetable, sz, newsz) on address space t.
Uvmdealloc(t, newsz) ==
  /\ pc = "idle" /\ ~panicked /\ Alive(t) /\ calls < MaxCalls
  /\ calls' = calls + 1
  /\ UNCHANGED bvars
  /\ \E d \in { uvmdealloc(ptmem, freelist, Root(t), Size(t), newsz) } :
       /\ ptmem' = d.pm
       /\ freelist' = d.fl
       /\ panicked' = d.panic
       /\ IF t = "p" THEN sz' = d.sz /\ UNCHANGED child
          ELSE child' = [child EXCEPT !.sz = d.sz] /\ UNCHANGED sz
       /\ ret' = d.sz
  /\ vmcall' = VmCall("uvmdealloc", t, Size(t), newsz, <<>>, FALSE)
  /\ pc' = "ret"
  /\ UNCHANGED <<pagetable, vmatable, ftable, m, wb, rd, ilocked>>

UvmdeallocCall == \E t \in Spaces, newsz \in VmSizes : Uvmdealloc(t, newsz)

\* new = uvmcreate(); uvmcopy(p->pagetable, new, p->sz); the child's size is
\* p->sz when the copy succeeded and 0 when it failed.
Uvmcopy ==
  /\ pc = "idle" /\ ~panicked /\ child.root = 0 /\ calls < MaxCalls
  /\ calls' = calls + 1
  /\ UNCHANGED bvars
  /\ IF kalloc(freelist) = 0
     THEN /\ ret' = -1
          /\ vmcall' = VmCall("uvmcreate", "c", 0, 0, <<>>, FALSE)
          /\ UNCHANGED <<ptmem, freelist, panicked, child>>
     ELSE \E c \in { uvmcopy([ptmem EXCEPT ![Head(freelist)] = EmptyTable],
                             AfterKalloc(freelist), pagetable,
                             kalloc(freelist), sz) } :
            /\ ptmem' = c.pm
            /\ freelist' = c.fl
            /\ panicked' = c.panic
            /\ child' = [root |-> kalloc(freelist),
                         sz |-> IF c.r = 0 THEN sz ELSE 0]
            /\ ret' = c.r
            /\ vmcall' = VmCall("uvmcopy", "c", sz, 0, c.got, FALSE)
  /\ pc' = "ret"
  /\ UNCHANGED <<pagetable, sz, vmatable, ftable, m, wb, rd, ilocked>>

\* uvmunmap(pagetable, va, npages, do_free) on address space t.
Uvmunmap(t, va, npages, do_free) ==
  /\ pc = "idle" /\ ~panicked /\ Alive(t) /\ calls < MaxCalls
  /\ calls' = calls + 1
  /\ UNCHANGED bvars
  /\ \E u \in { uvmunmap(ptmem, freelist, Root(t), va, npages, do_free) } :
       /\ ptmem' = u.pm
       /\ freelist' = u.fl
       /\ panicked' = u.panic
  /\ ret' = 0
  /\ vmcall' = VmCall("uvmunmap", t, va, npages, <<>>, do_free)
  /\ pc' = "ret"
  /\ UNCHANGED <<pagetable, sz, child, vmatable, ftable, m, wb, rd, ilocked>>

\* The ranges the model unmaps, frames freed: the first page, and two pages
\* from the second.
UvmunmapArgs == { <<0, 1>>, <<PGSIZE, 2>> }

UvmunmapCall ==
  \E t \in Spaces, a \in UvmunmapArgs : Uvmunmap(t, a[1], a[2], TRUE)

\* uvmfree(pagetable, size) on address space t, which ends it.  When
\* freewalk takes a leaf for a table pointer the kernel reads a page that is
\* no page table: it may halt or go on, and the model does not follow it
\* further.
Uvmfree(t, size, halt) ==
  /\ pc = "idle" /\ ~panicked /\ Alive(t) /\ calls < MaxCalls
  /\ calls' = calls + 1
  /\ UNCHANGED bvars
  /\ \E f \in { uvmfree(ptmem, freelist, Root(t), size) } :
       /\ ptmem' = f.pm
       /\ freelist' = f.fl
       /\ panicked' = (f.panic \/ (f.followed /\ halt))
       /\ vmcall' = VmCall("uvmfree", t, size, Root(t), <<>>, f.followed)
       /\ IF t = "p"
          THEN pc' = "exited" /\ UNCHANGED child
          ELSE /\ pc' = "ret"
               /\ child' = IF f.panic \/ f.followed THEN child ELSE NoChild
  /\ ret' = 0
  /\ UNCHANGED <<pagetable, sz, vmatable, ftable, m, wb, rd, ilocked>>

\* uvmfree is called with the size of the address space, or with 0, when it
\* only walks the tables.
UvmfreeCall ==
  \E t \in Spaces, whole \in BOOLEAN, halt \in BOOLEAN :
    Uvmfree(t, IF whole THEN Size(t) ELSE 0, halt)

\* The mapping calls of the address-space model, made before its first
\* address-space call: one private writable mapping of two pages by the
\* process of one page, its faults, and munmap of its first page or all.
VmMmapCall ==
  /\ calls = 0 /\ sz < PGSIZE
  /\ Mmap(2 * PGSIZE, PROT_READ + PROT_WRITE, MAP_PRIVATE, 0, 0)

VmMmapapageCall == calls = 0 /\ MmapapageCall

VmMunmapArgs == { <<PGSIZE, PGSIZE>>, <<PGSIZE, 2 * PGSIZE>> }

VmMunmapCall == calls = 0 /\ \E a \in VmMunmapArgs : MunmapEnter(a[1], a[2])

VmInit ==
  /\ pagetable = Pa(1)
  /\ sz = PGSIZE - 96
  /\ vmatable = [i \in 1..MAXVMA |-> FreeVma]
  /\ ftable = [f \in Fds |-> [ref |-> 1, readable |-> TRUE,
                              writable |-> (f = 0)]]
  /\ ptmem = InitMem(VmFrames)
  /\ freelist = InitFree(VmFrames)
  /\ pc = "idle"
  /\ m = NoCall
  /\ wb = NoWb
  /\ rd = NoRead
  /\ ilocked = FALSE
  /\ ret = 0
  /\ panicked = FALSE
  /\ child = NoChild
  /\ vmcall = NoVmCall
  /\ calls = 0
  /\ binit

VmNext ==
  \/ UvmallocCall
  \/ UvmdeallocCall
  \/ Uvmcopy
  \/ UvmunmapCall
  \/ UvmfreeCall
  \/ VmMmapCall
  \/ VmMmapapageCall
  \/ MmapapageRead
  \/ VmMunmapCall
  \/ MunmapUpdate
  \/ Return

VmSpec == VmInit /\ [][VmNext]_vars

\* ------------------------------------------ claims on address spaces
\* The step in which the address-space call `op` runs.
VmStep(op) == pc = "idle" /\ vmcall'.op = op
\* A leaf entry that is present, and one that is present and has a frame.
IsValid(e) == BitAnd(e, PTE_V) # 0
IsBacked(e) == BitAnd(e, PTE_V) # 0 /\ PTE2PA(e) # 0
\* The pages below size.
PagesBelow(size) == { a \in PageAddrs : a < size }

\* C13: after a successful uvmcopy(old, new, size), every page below size
\* whose leaf in old is present and backed by a frame, faulted-in mmap pages
\* included, has in new a valid leaf to a frame that uvmcopy allocated in this
\* call, with the same permission flags; a page whose leaf in old is invalid
\* or reserved-unbacked has no valid leaf in new.  (The content of frames is
\* not part of the state.)
C13_CopiesEveryBackedPage ==
  [][ (VmStep("uvmcopy") /\ ret' = 0 /\ ~panicked') =>
        \A a \in PagesBelow(sz) :
          IF IsBacked(Leaf(ptmem, pagetable, a))
          THEN /\ IsValid(Leaf(ptmem', child'.root, a))
               /\ \E k \in 1..Len(vmcall'.got) :
                    Pa(vmcall'.got[k]) = PTE2PA(Leaf(ptmem', child'.root, a))
               /\ PTE_FLAGS(Leaf(ptmem', child'.root, a)) =
                  PTE_FLAGS(Leaf(ptmem, pagetable, a))
          ELSE ~IsValid(Leaf(ptmem', child'.root, a))
    ]_vars

\* The frame the backed leaf of page a in address space t refers to, 0 when
\* the page has no backed leaf there.
LeafFrame(t, a) ==
  IF Alive(t) /\ IsBacked(Leaf(ptmem, Root(t), a))
  THEN PTE2PA(Leaf(ptmem, Root(t), a)) \div PGSIZE
  ELSE 0

\* C14: whatever uvmalloc, uvmdealloc, uvmcopy, mmap, fault-in, munmap and
\* uvmunmap calls were made, no frame is referenced by two distinct backed
\* leaf entries, of one address space or of two, and no backed leaf entry
\* refers to a frame that is on the allocator's free list.
C14_FramesOwnedOnce ==
  \A x \in Spaces \X PageAddrs :
    LeafFrame(x[1], x[2]) # 0 =>
      /\ LeafFrame(x[1], x[2]) \notin FreeFrames(freelist)
      /\ \A y \in Spaces \X PageAddrs :
           x # y => LeafFrame(y[1], y[2]) # LeafFrame(x[1], x[2])

\* uvmcopy has duplicated a backed page: both address spaces map address 0.
C14_Witness ==
  /\ pc = "ret" /\ vmcall.op = "uvmcopy" /\ ret = 0
  /\ LeafFrame("p", 0) # 0
  /\ LeafFrame("c", 0) # 0

\* The number of times frame f is on the free list fl.
FreeCount(fl, f) == Cardinality({ k \in 1..Len(fl) : fl[k] = f })

\* C15: when a frame allocation or a mapping fails part-way through
\* uvmcopy(old, new, size), whatever the layout of old, uvmcopy returns -1
\* without halting, every frame it allocated in the call is on the free list
\* exactly once, and new has no valid leaf below size.
C15_CopyFailureUnwinds ==
  [][ (VmStep("uvmcopy") /\ ret' # 0) =>
        /\ ~panicked'
        /\ ret' = -1
        /\ \A k \in 1..Len(vmcall'.got) :
             FreeCount(freelist', vmcall'.got[k]) = 1
        /\ \A a \in PagesBelow(sz) : ~IsValid(Leaf(ptmem', child'.root, a))
    ]_vars

\* C16: when a frame allocation or a mapping fails part-way through
\* uvmalloc(table, oldsz, newsz), it returns 0 without halting, every frame
\* it allocated in the call is on the free list exactly once, no page at or
\* above PGROUNDUP(oldsz) is mapped, and every leaf below PGROUNDUP(oldsz)
\* is as it was.
C16_GrowFailureUnwinds ==
  [][ (VmStep("uvmalloc") /\ ret' = 0 /\ vmcall'.b > 0) =>
        /\ ~panicked'
        /\ \A k \in 1..Len(vmcall'.got) :
             FreeCount(freelist', vmcall'.got[k]) = 1
        /\ \A a \in PageAddrs :
             IF a >= PGROUNDUP(vmcall'.a)
             THEN ~IsValid(Leaf(ptmem', Root(vmcall'.t), a))
             ELSE Leaf(ptmem', Root(vmcall'.t), a) =
                  Leaf(ptmem, Root(vmcall'.t), a)
        /\ sz' = sz /\ child' = child
    ]_vars

\* uvmalloc failed after it had mapped two pages.
C16_Witness ==
  /\ pc = "ret" /\ vmcall.op = "uvmalloc" /\ ret = 0 /\ vmcall.b > 0
  /\ Len(vmcall.got) >= 2
  /\ ~panicked

\* The frames of a sequence of frames.
FrameSet(q) == { q[k] : k \in 1..Len(q) }

\* C17: for sizes s0 <= s1, aligned or not, uvmdealloc(t, s1, s0) after a
\* successful uvmalloc(t, s0, s1) returns s0, leaves valid exactly the pages
\* that were valid before the growth and frees exactly the frames the growth
\* allocated, each once; uvmdealloc with newsz >= oldsz changes nothing.
C17_ShrinkUndoesGrow ==
  [][ /\ (VmStep("uvmalloc") /\ vmcall'.a <= vmcall'.b /\ ret' = vmcall'.b
            /\ ~panicked') =>
           \A d \in { uvmdealloc(ptmem', freelist', Root(vmcall'.t),
                                 vmcall'.b, vmcall'.a) } :
             /\ ~d.panic
             /\ d.sz = vmcall'.a
             /\ \A a \in PageAddrs :
                  IsValid(Leaf(d.pm, Root(vmcall'.t), a)) <=>
                  IsValid(Leaf(ptmem, Root(vmcall'.t), a))
             /\ FreeFrames(d.fl) \ FreeFrames(freelist') =
                FrameSet(vmcall'.got)
             /\ Len(d.fl) = Len(freelist') + Len(vmcall'.got)
             /\ FreeFrames(d.fl) = FreeFrames(freelist') \cup FrameSet(vmcall'.got)
      /\ (VmStep("uvmdealloc") /\ vmcall'.b >= vmcall'.a) =>
           /\ ret' = vmcall'.a
           /\ UNCHANGED <<ptmem, freelist, sz, child, panicked>>
    ]_vars

\* uvmalloc has grown an address space of unaligned size by two pages.
C17_Witness ==
  /\ pc = "ret" /\ vmcall.op = "uvmalloc" /\ ret = vmcall.b
  /\ vmcall.a % PGSIZE # 0
  /\ Len(vmcall.got) >= 2
  /\ ~panicked

\* The pages of the range uvmunmap(pagetable, va, npages, ..) works on.
UnmapRange(va, npages) ==
  { a \in PageAddrs : va <= a /\ a < va + npages * PGSIZE }
\* The frames of the backed leaves of address space t in a set of pages.
RangeFrames(t, pages) == { LeafFrame(t, a) : a \in pages } \ {0}

\* C18: uvmunmap on a page-aligned range never halts because pages of the
\* range are already unmapped, be the leaf invalid or the table covering the
\* page never created: with do_free set it clears every valid leaf of the
\* range, frees the frame of each backed one and nothing else, leaves every
\* leaf outside the range as it was, and a second identical call changes
\* nothing.
C18_UnmapToleratesUnmapped ==
  [][ VmStep("uvmunmap") =>
        /\ ~panicked'
        /\ \A a \in PageAddrs :
             IF a \in UnmapRange(vmcall'.a, vmcall'.b)
             THEN ~IsValid(Leaf(ptmem', Root(vmcall'.t), a))
             ELSE Leaf(ptmem', Root(vmcall'.t), a) =
                  Leaf(ptmem, Root(vmcall'.t), a)
        /\ FreeFrames(freelist') =
             FreeFrames(freelist) \cup
               RangeFrames(vmcall'.t, UnmapRange(vmcall'.a, vmcall'.b))
        /\ Len(freelist') =
             Len(freelist) +
               Cardinality(RangeFrames(vmcall'.t,
                                       UnmapRange(vmcall'.a, vmcall'.b)))
        /\ uvmunmap(ptmem', freelist', Root(vmcall'.t), vmcall'.a, vmcall'.b,
                    TRUE) =
             [pm |-> ptmem', fl |-> freelist', panic |-> FALSE]
    ]_vars

\* The frames of the table pages of the tree at root: the root, the tables
\* its valid entries point to, and the tables theirs point to.
ChildTables(pm, tabs) ==
  { PTE2PA(pm[f][i]) \div PGSIZE :
      <<f, i>> \in { x \in tabs \X (0..(NPTE - 1)) :
                       x[2] \in DOMAIN pm[x[1]] /\ IsValid(pm[x[1]][x[2]]) } }
TreeTables(pm, root) ==
  {root \div PGSIZE} \cup ChildTables(pm, {root \div PGSIZE})
    \cup ChildTables(pm, ChildTables(pm, {root \div PGSIZE}))

\* Every page below size has a level-0 table in the tree at root, so that
\* uvmunmap finds a leaf slot for it.
TablesBelow(pm, root, size) ==
  \A a \in PagesBelow(size) : walk(pm, <<>>, root, a, FALSE).pte # <<>>

\* C19: freewalk halts with a panic whenever a valid leaf remains in the
\* tree, a reserved-unbacked leaf without R/W/X included, and never follows
\* a leaf as a pointer to a lower table; when no leaf remains it frees every
\* table page once.  So uvmfree(table, size) on an address space whose
\* leaves all lie below size frees every data frame and every table page
\* exactly once.  Stated for the calls of uvmfree whose pages below size
\* all have a level-0 table.
C19_FreewalkPanicsOnLeaf ==
  [][ (VmStep("uvmfree") /\ TablesBelow(ptmem, vmcall'.b, vmcall'.a)) =>
        /\ ~vmcall'.followed
        /\ IF \E a \in PageAddrs :
                /\ a >= PGROUNDUP(vmcall'.a)
                /\ IsValid(Leaf(ptmem, vmcall'.b, a))
           THEN panicked'
           ELSE /\ ~panicked'
                /\ \A f \in TreeTables(ptmem, vmcall'.b) \cup
                            RangeFrames(vmcall'.t, PagesBelow(vmcall'.a)) :
                     FreeCount(freelist', f) = 1
    ]_vars

\* ==================================================== copyout, copyin
\* A walkaddr that does not look at PTE_U.
WalkaddrPteAnyMode(w) ==
  IF w.pte = <<>> THEN [pa |-> 0, pm |-> w.pm]
  ELSE IF BitAnd(Deref(w.pm, w.pte), PTE_V) = 0 THEN [pa |-> 0, pm |-> w.pm]
  ELSE [pa |-> PTE2PA(Deref(w.pm, w.pte)), pm |-> w.pm]

\* walkaddr(pagetable, va): the physical address (0: not mapped) and the
\* memory; WalkaddrPte is its part after walk returned w.
WalkaddrPte(w) ==
  IF w.pte = <<>> THEN [pa |-> 0, pm |-> w.pm]
  ELSE IF BitAnd(Deref(w.pm, w.pte), PTE_V) = 0 THEN [pa |-> 0, pm |-> w.pm]
  ELSE IF BitAnd(Deref(w.pm, w.pte), PTE_U) = 0 THEN [pa |-> 0, pm |-> w.pm]
  ELSE [pa |-> PTE2PA(Deref(w.pm, w.pte)), pm |-> w.pm]

walkaddr(pm, root, va) ==
  IF AboveMAXVA(va) THEN [pa |-> 0, pm |-> pm]
  ELSE WalkaddrPte(walk(pm, <<>>, root, va, FALSE))

\* The loop while(len > 0) of copyout (out) and copyin (~out) at user
\* address va, with off bytes moved so far.  segs lists the memmove calls:
\* user is the physical address on the user side, off the offset in the
\* kernel buffer, to the direction.  CopyPass is one pass, wa what
\* walkaddr(pagetable, va0) returned.
RECURSIVE CopyLoop(_, _, _, _, _, _, _)
CopyPass(wa, root, va, len, off, segs, out) ==
  LET va0 == PGROUNDDOWN(va)
      n == IF PGSIZE - (va - va0) > len THEN len ELSE PGSIZE - (va - va0)
  IN
  IF wa.pa = 0 THEN [r |-> -1, pm |-> wa.pm, segs |-> segs]
  ELSE CopyLoop(wa.pm, root, va0 + PGSIZE, len - n, off + n,
                Append(segs, [user |-> wa.pa + (va - va0), off |-> off,
                              n |-> n,
                              to |-> IF out THEN "user" ELSE "kernel"]),
                out)

CopyLoop(pm, root, va, len, off, segs, out) ==
  IF len > 0
  THEN CopyPass(walkaddr(pm, root, PGROUNDDOWN(va)), root, va, len, off,
                segs, out)
  ELSE [r |-> 0, pm |-> pm, segs |-> segs]

\* copyout(pagetable, dstva, src, len)
copyout(pm, root, dstva, len) == CopyLoop(pm, root, dstva, len, 0, <<>>, TRUE)
\* copyin(pagetable, dst, srcva, len)
copyin(pm, root, srcva, len) == CopyLoop(pm, root, srcva, len, 0, <<>>, FALSE)

\* The user addresses and lengths the model copies: the start of a page,
\* its end, inside the second page, and a page whose level-0 table does not
\* exist.
CopyArgs ==
  { <<va, len>> :
      va \in {0, PGSIZE - 8, PGSIZE + 8, NPTE * PGSIZE},
      len \in {0, 8, 16, PGSIZE, 2 * PGSIZE} }

\* A call of copyout(p->pagetable, va, src, len).
Copyout(va, len) ==
  /\ pc = "idle" /\ ~panicked
  /\ \E c \in { copyout(ptmem, pagetable, va, len) } :
       /\ ptmem' = c.pm
       /\ ret' = c.r
       /\ vmcall' = [op |-> "copyout", t |-> "p", a |-> va, b |-> len,
                     got |-> <<>>, segs |-> c.segs, followed |-> FALSE]
  /\ pc' = "ret"
  /\ UNCHANGED <<pagetable, sz, vmatable, ftable, freelist, m, wb, rd,
                 ilocked, panicked, child, calls, bvars>>

\* A call of copyin(p->pagetable, dst, va, len).
Copyin(va, len) ==
  /\ pc = "idle" /\ ~panicked
  /\ \E c \in { copyin(ptmem, pagetable, va, len) } :
       /\ ptmem' = c.pm
       /\ ret' = c.r
       /\ vmcall' = [op |-> "copyin", t |-> "p", a |-> va, b |-> len,
                     got |-> <<>>, segs |-> c.segs, followed |-> FALSE]
  /\ pc' = "ret"
  /\ UNCHANGED <<pagetable, sz, vmatable, ftable, freelist, m, wb, rd,
                 ilocked, panicked, child, calls, bvars>>

CopyoutCall == \E a \in CopyArgs : Copyout(a[1], a[2])
CopyinCall == \E a \in CopyArgs : Copyin(a[1], a[2])

\* uvmclear(pagetable, va) on the process.
Uvmclear(va) ==
  /\ pc = "idle" /\ ~panicked /\ calls < MaxCalls
  /\ calls' = calls + 1
  /\ UNCHANGED bvars
  /\ \E w \in { walk(ptmem, freelist, pagetable, va, FALSE) } :
       IF w.pte = <<>>
       THEN panicked' = TRUE /\ UNCHANGED ptmem                \* "uvmclear"
       ELSE /\ ptmem' = Store(ptmem, w.pte,
                              Deref(ptmem, w.pte) - BitAnd(Deref(ptmem, w.pte),
                                                           PTE_U))
            /\ UNCHANGED panicked
  /\ ret' = 0
  /\ vmcall' = VmCall("uvmclear", "p", va, 0, <<>>, FALSE)
  /\ pc' = "ret"
  /\ UNCHANGED <<pagetable, sz, vmatable, ftable, freelist, m, wb, rd,
                 ilocked, child>>

UvmclearCall == \E va \in {0, PGSIZE} : Uvmclear(va)

\* The process grows, loses pages, has pages made inaccessible to user
\* mode, maps a file and faults pages in; copyout and copyin run in between.
CopyNext ==
  \/ UvmallocCall
  \/ UvmunmapCall
  \/ UvmclearCall
  \/ VmMmapCall
  \/ VmMmapapageCall
  \/ MmapapageRead
  \/ CopyoutCall
  \/ CopyinCall
  \/ Return

CopySpec == VmInit /\ [][CopyNext]_vars

\* The pages the model looks at around a copy.
CopyPages ==
  { p * PGSIZE : p \in 0..(MaxPages + 1) } \cup
  { (NPTE + p) * PGSIZE : p \in 0..2 }
\* The pages [va, va + len) touches: none when len = 0.
Touched(va, len) ==
  { p \in CopyPages : len > 0 /\ p + PGSIZE > va /\ p < va + len }
\* The page at p has a valid, user-accessible leaf with a frame.
UserBacked(p) ==
  /\ IsBacked(Leaf(ptmem, pagetable, p))
  /\ BitAnd(Leaf(ptmem, pagetable, p), PTE_U) # 0
\* The touched pages before the first one that is not so.
Copied(va, len) ==
  { p \in Touched(va, len) :
      \A q \in Touched(va, len) : q <= p => UserBacked(q) }
Max(a, b) == IF a > b THEN a ELSE b
Min(a, b) == IF a < b THEN a ELSE b

\* C20: copyout and copyin return 0 exactly when every page touched by
\* [va, va + len) has a valid, user-accessible, frame-backed leaf, and -1
\* otherwise.  The bytes of the touched pages before the first failing one
\* are moved, page by page in order, each piece to or from the frame of its
\* page at the offset of the address in the page and at the offset in the
\* kernel buffer that the address has in the range; nothing is moved for
\* the failing page or after it; so on success exactly len bytes are moved.
\* The page tables are not changed.
C20_CopyPageByPage ==
  [][ (VmStep("copyout") \/ VmStep("copyin")) =>
        /\ ret' = (IF \A p \in Touched(vmcall'.a, vmcall'.b) : UserBacked(p)
                   THEN 0 ELSE -1)
        /\ Len(vmcall'.segs) = Cardinality(Copied(vmcall'.a, vmcall'.b))
        /\ \A p \in Copied(vmcall'.a, vmcall'.b) :
             \A g \in { vmcall'.segs[Cardinality({ q \in Copied(vmcall'.a,
                                                                vmcall'.b) :
                                                     q <= p })] } :
               /\ g.user = PTE2PA(Leaf(ptmem, pagetable, p)) +
                           (Max(p, vmcall'.a) - p)
               /\ g.off = Max(p, vmcall'.a) - vmcall'.a
               /\ g.n = Min(p + PGSIZE, vmcall'.a + vmcall'.b) -
                        Max(p, vmcall'.a)
               /\ g.to = (IF vmcall'.op = "copyout" THEN "user" ELSE "kernel")
        /\ UNCHANGED <<ptmem, freelist, pagetable, sz>>
        /\ ~panicked'
    ]_vars

\* copyout moved the bytes of one page and failed at the next page, which
\* is reserved-unbacked.
C20_Witness ==
  /\ pc = "ret" /\ vmcall.op = "copyout" /\ ret = -1
  /\ Len(vmcall.segs) = 1
  /\ vmcall.a = PGSIZE - 8
  /\ Leaf(ptmem, pagetable, PGSIZE) = PTE_V + PTE_U + PTE_M

\* ============================================================ copyinstr
\* User memory as copyinstr reads it: zeros is the set of physical addresses
\* that hold '\0'; every other byte has a non-zero value of its own.
Mem(zeros, p) == IF p \in zeros THEN 0 ELSE (p % 251) + 1

\* An inner loop that counts the terminator against max like any other byte
\* and goes on.
StrBytesNoBreak(n, max, p, dst, zeros) ==
  [n |-> 0, max |-> max - n, got_null |-> FALSE,
   dst |-> dst \o [k \in 1..n |-> Mem(zeros, p + k - 1)]]

\* copyinstr's inner loop while(n > 0) from the physical address p on; dst
\* is what was written to the destination so far.
RECURSIVE StrBytes(_, _, _, _, _)
StrBytes(n, max, p, dst, zeros) ==
  IF n > 0
  THEN IF Mem(zeros, p) = 0
       THEN [n |-> n, max |-> max, got_null |-> TRUE, dst |-> Append(dst, 0)]
       ELSE StrBytes(n - 1, max - 1, p + 1, Append(dst, Mem(zeros, p)), zeros)
  ELSE [n |-> n, max |-> max, got_null |-> FALSE, dst |-> dst]

\* copyinstr's outer loop while(got_null == 0 && max > 0); passes counts its
\* passes.  StrPass is one pass after walkaddr(pagetable, va0) returned wa,
\* StrNextPass the rest of it after the inner loop left b.
RECURSIVE StrLoop(_, _, _, _, _, _, _, _)
StrNextPass(b, pm, root, va0, zeros, passes) ==
  StrLoop(pm, root, va0 + PGSIZE, b.max, b.got_null, b.dst, zeros, passes + 1)

StrPass(wa, root, srcva, max, dst, zeros, passes) ==
  LET va0 == PGROUNDDOWN(srcva)
      n == IF PGSIZE - (srcva - va0) > max THEN max
           ELSE PGSIZE - (srcva - va0)
  IN
  IF wa.pa = 0
  THEN [r |-> -1, pm |-> wa.pm, dst |-> dst, passes |-> passes + 1]
  ELSE StrNextPass(StrBytes(n, max, wa.pa + (srcva - va0), dst, zeros),
                   wa.pm, root, va0, zeros, passes)

StrLoop(pm, root, srcva, max, got_null, dst, zeros, passes) ==
  IF ~got_null /\ max > 0
  THEN StrPass(walkaddr(pm, root, PGROUNDDOWN(srcva)), root, srcva, max, dst,
               zeros, passes)
  ELSE [r |-> IF got_null THEN 0 ELSE -1, pm |-> pm, dst |-> dst,
        passes |-> passes]

\* copyinstr(pagetable, dst, srcva, max)
copyinstr(pm, root, srcva, max, zeros) ==
  StrLoop(pm, root, srcva, max, FALSE, <<>>, zeros, 0)

\* The longest string the model copies.
MaxStr == 4
\* The user addresses strings start at: two bytes before the end of the
\* first and of the second page.
StrAddrs == {PGSIZE - 2, 2 * PGSIZE - 2}
\* The physical address user address v translates to, 0 when walkaddr
\* fails for its page.
Phys(v) ==
  IF UserBacked(PGROUNDDOWN(v))
  THEN PTE2PA(Leaf(ptmem, pagetable, PGROUNDDOWN(v))) + (v - PGROUNDDOWN(v))
  ELSE 0

\* A call copyinstr(p->pagetable, dst, srcva, max) when the bytes at the
\* user addresses in nulls, as far as they are mapped, are '\0'.
Copyinstr(srcva, max, nulls) ==
  /\ pc = "idle" /\ ~panicked
  /\ \E c \in { copyinstr(ptmem, pagetable, srcva, max,
                          { Phys(v) : v \in nulls } \ {0}) } :
       /\ ptmem' = c.pm
       /\ ret' = c.r
       /\ vmcall' = [op |-> "copyinstr", t |-> "p", a |-> srcva, b |-> max,
                     got |-> c.dst,
                     segs |-> <<[nulls |-> nulls, passes |-> c.passes]>>,
                     followed |-> FALSE]
  /\ pc' = "ret"
  /\ UNCHANGED <<pagetable, sz, vmatable, ftable, freelist, m, wb, rd,
                 ilocked, panicked, child, calls, bvars>>

CopyinstrCall ==
  \E srcva \in StrAddrs, max \in 0..MaxStr :
    \E nulls \in SUBSET { srcva + i : i \in 0..(MaxStr - 1) } :
      Copyinstr(srcva, max, nulls)

StrNext ==
  \/ UvmallocCall
  \/ UvmunmapCall
  \/ UvmclearCall
  \/ VmMmapCall
  \/ VmMmapapageCall
  \/ MmapapageRead
  \/ CopyinstrCall
  \/ Return

StrSpec == VmInit /\ [][StrNext]_vars

\* The offsets i < max of the source bytes that are '\0' with every page from
\* srcva up to them mapped.
Terminators(srcva, max, nulls) ==
  { i \in 0..(max - 1) :
      /\ srcva + i \in nulls
      /\ \A j \in 0..i : Phys(srcva + j) # 0 }

\* C21: copyinstr returns 0 exactly when a null byte occurs among the first
\* max source bytes with every page from srcva up to it mapped, and -1
\* otherwise, so for max = 0; on success the destination holds the source
\* bytes up to and including the first such null byte; it never writes more
\* than max bytes, its loop makes at most max passes, and the page tables
\* are unchanged.
C21_CopyinstrTerminated ==
  [][ VmStep("copyinstr") =>
        LET srcva == vmcall'.a
            max == vmcall'.b
            nulls == vmcall'.segs[1].nulls
            T == Terminators(srcva, max, nulls)
        IN
        /\ ret' = (IF T # {} THEN 0 ELSE -1)
        /\ T # {} =>
             \A k \in T :
               (\A i \in T : k <= i) =>
                 /\ Len(vmcall'.got) = k + 1
                 /\ vmcall'.got[k + 1] = 0
                 /\ \A i \in 0..(k - 1) :
                      /\ vmcall'.got[i + 1] # 0
                      /\ vmcall'.got[i + 1] = (Phys(srcva + i) % 251) + 1
        /\ Len(vmcall'.got) <= max
        /\ vmcall'.segs[1].passes <= max
        /\ UNCHANGED <<ptmem, freelist, pagetable, sz>>
        /\ ~panicked'
    ]_vars

\* copyinstr copied a string of three bytes that crosses a page boundary.
C21_Witness ==
  /\ pc = "ret" /\ vmcall.op = "copyinstr" /\ ret = 0
  /\ Len(vmcall.got) = 3
  /\ vmcall.b = 3

\* ------------------------------------------- claims on munmap, faults
\* The pages inside region v.
RegionPages(v) == { a \in AllPages : v.addr <= a /\ a < v.addr + v.length }

\* C22: munmap changes only the region that contains its start address:
\* whatever the request, also when its page-rounded range reaches past the
\* end of that region, the bookkeeping of every other region is unchanged
\* and so is every page-table entry inside another active region.
C22_MunmapOnlyLocatedRegion ==
  [][ UpdateStep =>
        \A s \in Slots \ {m.v} :
          /\ vmatable'[s] = vmatable[s]
          /\ Active(vmatable[s]) =>
               \A a \in RegionPages(vmatable[s]) : LeafNext(a) = LeafNow(a)
    ]_vars

\* The step in which mmapapage returns after readi.
ReadiStep == pc = "readi" /\ pc' = "ret"

\* C23: whenever mmapapage returns -1, the entry of the faulting page is as
\* it was before the call, no frame the call allocated remains allocated and
\* the inode lock is not held: a return of -1 after readi finds the frame of
\* the call back on the free list and no longer in the page's entry, a
\* return of -1 before readi has changed neither page tables nor free list.
\* And a fault-in on a page that is already backed never replaces its frame
\* without freeing the old one.
C23_FailedFaultRestores ==
  [][ /\ (ReadiStep /\ ret' = -1) =>
           /\ ~ilocked'
           /\ (rd.dst \div PGSIZE) \in FreeFrames(freelist')
           /\ PTE2PA(LeafNext(rd.addr)) # rd.dst
      /\ (MmapapageCall /\ pc' = "ret") =>
           /\ ret' = -1 /\ ~ilocked'
           /\ UNCHANGED <<ptmem, freelist>>
      /\ (InstallStep /\ IsBacked(LeafNow(rd'.addr))) =>
           (PTE2PA(LeafNow(rd'.addr)) \div PGSIZE) \in FreeFrames(freelist')
    ]_vars

\* ========================================================= buffer cache
\* Bitwise operations on n-bit numbers.
RECURSIVE XorBits(_, _, _)
XorBits(a, b, n) ==
  IF n = 0 THEN 0
  ELSE ((a + b) % 2) + 2 * XorBits(a \div 2, b \div 2, n - 1)

RECURSIVE OrBits(_, _, _)
OrBits(a, b, n) ==
  IF n = 0 THEN 0
  ELSE (IF a % 2 = 1 \/ b % 2 = 1 THEN 1 ELSE 0)
       + 2 * OrBits(a \div 2, b \div 2, n - 1)

\* A uint as its two 16-bit halves, and the uint operations hash() uses.
Half == 65536
U32(hi, lo) == [hi |-> hi % Half, lo |-> lo % Half]
Xor32(x, y) == U32(XorBits(x.hi, y.hi, 16), XorBits(x.lo, y.lo, 16))
Add32(x, y) == U32(x.hi + y.hi + ((x.lo + y.lo) \div Half), x.lo + y.lo)
Shr20(x) == U32(0, x.hi \div 16)
Shl12(x) == U32((x.hi % 16) * 4096 + (x.lo \div 16), (x.lo % 16) * 4096)
Mod32(x, n) == ((x.hi % n) * (Half % n) + x.lo) % n

\* hash(dev, block_no): the bucket of a block.
HashH == U32(32639, 32639)            \* 0x7f7f7f7f
HashNotH == U32(32896, 32896)         \* ~0x7f7f7f7f
HashKey(dev, block_no) ==
  U32(OrBits(dev % Half, block_no \div Half, 16), block_no)
HashMix(key) ==
  Xor32(Xor32(Xor32(key, HashH), Xor32(Shr20(key), HashH)), Shl12(key))
hash(dev, block_no) ==
  Mod32(Add32(Xor32(HashMix(HashKey(dev, block_no)), HashH), HashNotH), NBUCKET)

\* The blocks the threads ask for, as <<dev, blockno>>: the first and the last
\* share bucket 2, the others are alone in buckets 0 and 1.
Blocks == { <<1, 0>>, <<1, 1>>, <<1, 7>>, <<1, 8>> }

\* hash() of every block of the model, computed once.
BucketOf == [blk \in Blocks |-> hash(blk[1], blk[2])]

\* panic() halts the machine.
Panicked == \E p \in Procs : procs[p].pc = "panic"

\* List l without its i-th element.
Unlink(l, i) == SubSeq(l, 1, i - 1) \o SubSeq(l, i + 1, Len(l))

\* Every bucket list with buffer b unlinked from wherever it is.
Unlinked(bk, b) ==
  [i \in Buckets |-> SelectSeq(bk[i], LAMBDA x : x # b)]

\* A thread calls bget(dev, blockno).  Threads take buffers in the order of
\* their block numbers and never ask for a block they hold.
Bget(p, dev, blockno) ==
  /\ ~Panicked /\ procs[p].pc = "idle"
  /\ \A b \in procs[p].held : buf[b].blockno < blockno
  /\ procs' = [procs EXCEPT ![p] =
                 [@ EXCEPT !.pc = "acquire", !.dev = dev, !.blockno = blockno,
                           !.buid = BucketOf[<<dev, blockno>>], !.stealid = 0,
                           !.b = 0]]
  /\ UNCHANGED <<buf, bucket, bucket_lock>>
  /\ UNCHANGED vmvars

\* bget: acquire(&bcache.bucket_lock[buid]) and the loop "Is the block
\* already cached?": a hit takes a reference and releases the lock, a miss
\* goes on to the steal loop with the lock held.
BgetLookup(p) ==
  LET me == procs[p]
      list == bucket[me.buid]
      hit == { i \in 1..Len(list) :
                 buf[list[i]].dev = me.dev /\ buf[list[i]].blockno = me.blockno }
  IN
  /\ ~Panicked /\ me.pc = "acquire"
  /\ bucket_lock[me.buid] = 0
  /\ IF hit # {}
     THEN \E i \in hit :
            /\ \A j \in hit : i <= j
            /\ buf' = [buf EXCEPT ![list[i]].refcnt = @ + 1]
            /\ procs' = [procs EXCEPT ![p].pc = "sleep", ![p].b = list[i],
                                      ![p].buid = 0]
            /\ UNCHANGED bucket_lock
     ELSE /\ bucket_lock' = [bucket_lock EXCEPT ![me.buid] = p]
          /\ procs' = [procs EXCEPT ![p].pc = "steal", ![p].stealid = me.buid]
          /\ UNCHANGED buf
  /\ UNCHANGED bucket
  /\ UNCHANGED vmvars

\* bget: one pass of the do-while loop, on bucket stealid: take its lock
\* unless it is the thread's own bucket, scan it from the least recently used
\* end for a buffer with refcnt 0.  Found: the buffer gets the new identity
\* and, when stolen from another bucket, moves to the head of the thread's
\* own; both locks are released.  Not found: the lock of the scanned bucket
\* is released and stealid advances modulo NBUCKET; the loop goes on while
\* steal != bcache.bucket_head + NBUCKET, and panics otherwise.
BgetSteal(p) ==
  LET me == procs[p]
      sid == me.stealid
      list == bucket[sid]
      free == { i \in 1..Len(list) : buf[list[i]].refcnt = 0 }
      next == (sid + 1) % NBUCKET
  IN
  /\ ~Panicked /\ me.pc = "steal"
  /\ sid = me.buid \/ bucket_lock[sid] = 0
  /\ IF free # {}
     THEN \E i \in free :
            /\ \A j \in free : j <= i
            /\ buf' = [buf EXCEPT ![list[i]] =
                         [@ EXCEPT !.dev = me.dev, !.blockno = me.blockno,
                                   !.refcnt = 1]]
            /\ bucket' = IF sid # me.buid
                         THEN [bucket EXCEPT ![sid] = Unlink(list, i),
                                             ![me.buid] = <<list[i]>> \o @]
                         ELSE bucket
            /\ bucket_lock' = [bucket_lock EXCEPT ![me.buid] = 0]
            /\ procs' = [procs EXCEPT ![p].pc = "sleep", ![p].b = list[i],
                                      ![p].buid = 0, ![p].stealid = 0]
     ELSE /\ procs' = [procs EXCEPT
                         ![p].stealid = next,
                         ![p].pc = IF next # NBUCKET THEN "steal" ELSE "panic"]
          /\ UNCHANGED <<buf, bucket, bucket_lock>>
  /\ UNCHANGED vmvars

\* bget: acquiresleep(&b->lock); return b.
BgetSleep(p) ==
  LET me == procs[p] IN
  /\ ~Panicked /\ me.pc = "sleep"
  /\ buf[me.b].lock = 0
  /\ buf' = [buf EXCEPT ![me.b].lock = p]
  /\ procs' = [procs EXCEPT ![p] = [NoProc EXCEPT !.held = me.held \cup {me.b}]]
  /\ UNCHANGED <<bucket, bucket_lock>>
  /\ UNCHANGED vmvars

\* brelse(b) by the holder of b: releasesleep(&b->lock) and
\* buid = hash(b->dev, b->blockno).
Brelse(p, b) ==
  /\ ~Panicked /\ procs[p].pc = "idle"
  /\ b \in procs[p].held /\ buf[b].lock = p
  /\ buf' = [buf EXCEPT ![b].lock = 0]
  /\ procs' = [procs EXCEPT ![p].pc = "brelse", ![p].b = b,
                            ![p].buid = BucketOf[<<buf[b].dev, buf[b].blockno>>],
                            ![p].held = @ \ {b}]
  /\ UNCHANGED <<bucket, bucket_lock>>
  /\ UNCHANGED vmvars

\* brelse: under the lock of the buffer's bucket, drop the reference; a
\* buffer nobody refers to moves to the head of the bucket's list.
BrelseUpdate(p) ==
  LET me == procs[p]
      buid == me.buid
  IN
  /\ ~Panicked /\ me.pc = "brelse"
  /\ bucket_lock[buid] = 0
  /\ buf' = [buf EXCEPT ![me.b].refcnt = @ - 1]
  /\ bucket' = IF buf[me.b].refcnt = 1
               THEN [Unlinked(bucket, me.b) EXCEPT ![buid] = <<me.b>> \o @]
               ELSE bucket
  /\ procs' = [procs EXCEPT ![p] = [NoProc EXCEPT !.held = me.held]]
  /\ UNCHANGED bucket_lock
  /\ UNCHANGED vmvars

BufNext ==
  \/ \E p \in Procs, blk \in Blocks : Bget(p, blk[1], blk[2])
  \/ \E p \in Procs : BgetLookup(p)
  \/ \E p \in Procs : BgetSteal(p)
  \/ \E p \in Procs : BgetSleep(p)
  \/ \E p \in Procs, b \in Bufs : Brelse(p, b)
  \/ \E p \in Procs : BrelseUpdate(p)

BufSpec == VmInit /\ [][BufNext]_vars

\* A thread inside a call goes on whenever the lock it waits for is free
\* again and again, and a thread that holds a buffer releases it.
BufFair ==
  /\ \A p \in Procs :
       SF_vars(BgetLookup(p) \/ BgetSteal(p) \/ BgetSleep(p) \/ BrelseUpdate(p))
  /\ \A p \in Procs, b \in Bufs : SF_vars(Brelse(p, b))

BufFairSpec == BufSpec /\ BufFair

\* ------------------------------------------- claims on the buffer cache
\* Thread p is inside bget.
InBget(p) == procs[p].pc \in {"acquire", "steal", "sleep"}

\* The step in which thread p's bget returns: it returns the buffer of the
\* block asked for, locked by p.
BgetReturns(p) == InBget(p) /\ procs'[p].pc = "idle"
ReturnsRequested(p) ==
  LET b == procs[p].b IN
  /\ b \in procs'[p].held /\ buf'[b].lock = p /\ buf'[b].refcnt > 0
  /\ buf'[b].dev = procs[p].dev /\ buf'[b].blockno = procs[p].blockno

\* No two buffers in use cache the same block.
NoDuplicates ==
  \A a, b \in Bufs :
    (a # b /\ buf[a].refcnt > 0 /\ buf[b].refcnt > 0) =>
      (buf[a].dev # buf[b].dev \/ buf[a].blockno # buf[b].blockno)

AllBusy == \A b \in Bufs : buf[b].refcnt > 0

\* C24: under fair scheduling, every bget call returns a buffer for the
\* block asked for or reaches panic("bget: no buffers"), and it panics only
\* when every buffer has refcnt > 0: no interleaving deadlocks on the bucket
\* locks, the steal scan over the buckets terminates, and never two buffers
\* with refcnt > 0 cache the same (dev, blockno).
C24_BgetReturnsOrPanics ==
  /\ \A p \in Procs : InBget(p) ~> (procs[p].pc = "idle" \/ Panicked)
  /\ [][\A p \in Procs : BgetReturns(p) => ReturnsRequested(p)]_vars
  /\ [](Panicked => AllBusy)
  /\ []NoDuplicates
============================================================================
